---- MODULE Spec2Model ----
(***************************************************************************)
(* Model of the CUTMV server: the chunked upload assembler                 *)
(* (POST /api/upload-chunk, POST /api/finalize-upload) and the job         *)
(* progress registry (POST /api/process-clips-direct, the export stages,   *)
(* GET /api/processing-progress, POST /api/cancel-processing), the         *)
(* timestamp parser and validator (POST /api/parse-timestamps and the      *)
(* page's parseTimestampText), the timestamp conversions, and the random   *)
(* cut generator (POST /api/generate-5-cuts).                              *)
(*                                                                         *)
(* The server is one Node.js process: the code between two awaits runs     *)
(* without interruption, and any other handler may run at an await.  Each  *)
(* action below is the continuation of one handler from one await to the   *)
(* next: it applies the effect of the awaited I/O call and then runs the   *)
(* synchronous code that follows it.                                       *)
(***************************************************************************)
EXTENDS Integers, Sequences, FiniteSets, TLC

\* ------------------------------------------------------------------ bounds
\* The largest chunk count of an uploaded file, and the number of requests
\* (chunk submissions and finalize calls together) the server receives.
MaxChunks == 2
MaxReqs == 4
\* The number of requests the server handles at the same time.
MaxInFlight == 2

\* Bytes per chunk the client slices the file into (the client's CHUNK_SIZE,
\* scaled down to bytes the model can enumerate).
ChunkSize == 2

\* The uploadId the client drew for this upload (one session token).
UploadId == "u1"
UploadIds == {UploadId}
Reqs == 1..MaxReqs

NoRec == 0

VARIABLES
  fileSize,      \* the size of the file the client uploads (file.size)
  recs,          \* the session record objects ever created, by identity
  chunkStore,    \* Map uploadId -> session record (NoRec: no entry)
  chunkDirs,     \* uploads/chunks/<uploadId>: exists, files by name
  finalFiles,    \* the destination file of each finalize request
  videos,        \* MemStorage.videos
  currentVideoId,\* MemStorage.currentVideoId
  kind,          \* what each request is: "chunk" or "finalize" ("none": not arrived)
  pc,            \* each request handler's position (the await it is suspended at)
  idx,           \* chunkIndex of a chunk handler, loop variable i of a finalize
  upload,        \* the handler's local `upload`: the record it holds
  resp,          \* the response sent
  cause          \* the error a finalize threw

uploadVars == <<fileSize, recs, chunkStore, chunkDirs, finalFiles, videos,
                currentVideoId, kind, pc, idx, upload, resp, cause>>

VARIABLES
  plan,            \* the request body and the video: timestampText, its
                   \* valid ranges (valid.length), aspectRatios, the export
                   \* flags, the duration in seconds
  processingJobs,  \* the registry entry of the video (NoJob: no entry)
  run,             \* per processing request, the handler's locals: position,
                   \* clipCounter, the units still running, processedClips,
                   \* errors, the encodes started, the response
  cancels          \* cancel requests received so far

jobVars == <<plan, processingJobs, run, cancels>>

VARIABLES
  text,            \* the timestamp text of a parse request (req.body.text)
  videoDuration,   \* the stored duration string of its video (empty: none)
  timestamps,      \* the server handler's local `timestamps` (parseTimestamps)
  validation,      \* the server handler's local `validation`
  parseResult,     \* what the client's parseTimestampText returned
  parsed           \* which of the two parsers has run on the text

timeVars == <<text, videoDuration, timestamps, validation, parseResult, parsed>>

VARIABLES
  stamp,           \* one timestamp string handed to the conversions
  normalized,      \* what normalizeTimestamp returned, server and client
  roundTrip        \* secondsToTimestamp(timestampToSeconds(stamp)), both

stampVars == <<stamp, normalized, roundTrip>>

VARIABLES
  cutVideo,        \* the duration string of the video of a 5-cut request
  randomCut        \* generateRandomTimestamps: position, loop index i,
                   \* usedRanges, timestamps, what it returned or threw

cutVars == <<cutVideo, randomCut>>

textVars == <<timeVars, stampVars, cutVars>>

VARIABLES
  freeSpace,       \* the free space of the uploads volume (bavail * bsize)
  wholeUpload      \* POST /api/upload: position, req.file, whether the
                   \* received file is on disk, diskSpace, the response

wholeVars == <<freeSpace, wholeUpload>>

VARIABLES
  uploadsDir,      \* the entries of ./uploads: whether each exists and
                   \* whether its mtime is older than 24 hours
  sessionOld,      \* the staged session was last touched over 24 hours ago
  sweep            \* cleanupOldFiles: position, the names readdir returned,
                   \* the loop position, what the last pass met

sweepVars == <<uploadsDir, sessionOld, sweep>>

VARIABLES
  canvasDuration,  \* generateCanvasExports: videoDuration, in seconds
  canvasStart,     \* the start drawn in the last pass of the loop, in ticks
  segments,        \* the segments chosen so far
  canvasPc         \* "idle", "select" (in the while loop), "launched"

canvasVars == <<canvasDuration, canvasStart, segments, canvasPc>>

VARIABLES
  gifDuration,     \* generateGifExport: durationSeconds
  gifRanges,      \* the ranges placed so far
  placement,       \* startTime, attempts, validPosition of the GIF in hand
  gifStarts,       \* the startTime each GIF is encoded from
  gifPc            \* "idle", "place" (in the while loop), "launched"

gifVars == <<gifDuration, gifRanges, placement, gifStarts, gifPc>>

VARIABLES
  fadeInput,       \* the clip's duration and the fade options of the request
  fadeFilters      \* the fade filters handed to ffmpeg, once built

fadeVars == <<fadeInput, fadeFilters>>

VARIABLES
  registry,        \* the video's entry of processingJobs, as the page sees
                   \* it: its status and the request that wrote it
  requests,        \* each processing request of the page: where its POST is
  page,            \* the page: its request in hand, its position, its status
  poll             \* the GET /api/processing-progress in flight, if any

pollVars == <<registry, requests, page, poll>>

VARIABLES
  fileSizeClient,  \* uploadFileInChunks: file.size
  batchStart,      \* the index the batch in hand starts at
  chunkFetch,      \* each chunk's fetch: "unsent", "inflight", "ok", "failed"
  uploadedBytes,   \* the bytes of the chunks answered with success
  sentLog,         \* the requests sent, in order
  clientPc         \* "idle", "batch" (awaiting Promise.all), "finalize"
                   \* (awaiting its fetch), "returned", "thrown"

clientVars == <<fileSizeClient, batchStart, chunkFetch, uploadedBytes, sentLog, clientPc>>

extraVars ==
  <<wholeVars, sweepVars, canvasVars, gifVars, fadeVars, pollVars, clientVars>>

\* --------------------------------------------------------- pure functions

Min(a, b) == IF a < b THEN a ELSE b

\* Math.ceil(file.size / chunkSize)
TotalChunksOf(size) == (size + ChunkSize - 1) \div ChunkSize

\* The uploaded file: byte k of the file has the value k.
FileBytes(size) == [k \in 1..size |-> k]

\* file.slice(i * chunkSize, Math.min(start + chunkSize, file.size))
ChunkSlice(size, i) ==
  SubSeq(FileBytes(size), i * ChunkSize + 1, Min(i * ChunkSize + ChunkSize, size))

\* String(n): the decimal digits of n
RECURSIVE Digits(_)
Digits(n) == IF n < 10 THEN <<n>> ELSE Digits(n \div 10) \o <<n % 10>>

\* s.padStart(width, '0')
RECURSIVE PadStart(_, _)
PadStart(s, width) == IF Len(s) >= width THEN s ELSE PadStart(<<0>> \o s, width)

\* String(chunkIndex).padStart(5, '0') + '.part'
ChunkFileName(i) == PadStart(Digits(i), 5)

\* A faulty variant of the write below: the chunk lands before the data
\* already written.
WriteStreamWritePrepend(data, chunk) == chunk \o data
\* writeStream.write(chunkData): the stream appends
WriteStreamWrite(data, chunk) == data \o chunk

NoFiles == [n \in {} |-> <<>>]
NoFinalFile == [exists |-> FALSE, data |-> <<>>]
NoResp == [status |-> 0, message |-> ""]

\* --------------------------------------------------------------- initial

UploadInit ==
  /\ fileSize \in {ChunkSize * (n - 1) + 1 : n \in 1..MaxChunks}
  /\ recs = <<>>
  /\ chunkStore = [u \in UploadIds |-> NoRec]
  /\ chunkDirs = [u \in UploadIds |-> [exists |-> FALSE, files |-> NoFiles]]
  /\ finalFiles = [f \in Reqs |-> NoFinalFile]
  /\ videos = {}
  /\ currentVideoId = 1
  /\ kind = [r \in Reqs |-> "none"]
  /\ pc = [r \in Reqs |-> "idle"]
  /\ idx = [r \in Reqs |-> 0]
  /\ upload = [r \in Reqs |-> NoRec]
  /\ resp = [r \in Reqs |-> NoResp]
  /\ cause = [r \in Reqs |-> "none"]

\* Requests are numbered in their order of arrival.
Arrived(r) == IF r = 0 THEN TRUE ELSE pc[r] # "idle"

InFlight == {r \in Reqs : pc[r] \notin {"idle", "done"}}

\* Request r arrives now.
Arrives(r) ==
  /\ pc[r] = "idle"
  /\ Arrived(r - 1)
  /\ Cardinality(InFlight) < MaxInFlight

Respond(r, status, message) ==
  /\ resp' = [resp EXCEPT ![r] = [status |-> status, message |-> message]]
  /\ pc' = [pc EXCEPT ![r] = "done"]

Goto(r, label) == pc' = [pc EXCEPT ![r] = label]

\* ------------------------------------------- POST /api/upload-chunk

NewSession == [totalSize |-> 0,
               totalChunks |-> TotalChunksOf(fileSize),
               receivedChunks |-> 0,
               finalizing |-> FALSE]

\* The request arrives: the synchronous code up to the first await.
\* An unseen uploadId awaits fs.mkdir before the record is set; a known
\* one takes the stored record and awaits fs.rename.
ChunkStart(r, i) ==
  /\ Arrives(r)
  /\ kind' = [kind EXCEPT ![r] = "chunk"]
  /\ i \in 0..(TotalChunksOf(fileSize) - 1)
  /\ idx' = [idx EXCEPT ![r] = i]
  /\ IF chunkStore[UploadId] = NoRec
     THEN /\ Goto(r, "mkdir")
          /\ UNCHANGED upload
     ELSE /\ Goto(r, "rename")
          /\ upload' = [upload EXCEPT ![r] = chunkStore[UploadId]]
  /\ UNCHANGED <<jobVars, textVars, extraVars>>
  /\ UNCHANGED <<fileSize, recs, chunkStore, chunkDirs, finalFiles, videos,
                 currentVideoId, resp, cause>>

\* fs.mkdir returned: chunkStore.set(uploadId, {...}) and chunkStore.get.
ChunkMkdirDone(r) ==
  /\ pc[r] = "mkdir"
  /\ chunkDirs' = [chunkDirs EXCEPT ![UploadId].exists = TRUE]
  /\ recs' = Append(recs, NewSession)
  /\ chunkStore' = [chunkStore EXCEPT ![UploadId] = Len(recs) + 1]
  /\ upload' = [upload EXCEPT ![r] = Len(recs) + 1]
  /\ Goto(r, "rename")
  /\ UNCHANGED <<jobVars, textVars, extraVars>>
  /\ UNCHANGED <<kind, fileSize, finalFiles, videos, currentVideoId, idx, resp, cause>>

\* fs.rename returned: the chunk file is in the staging directory, or the
\* directory is gone and the handler answers 500.
ChunkRenameDone(r) ==
  /\ pc[r] = "rename"
  /\ IF chunkDirs[UploadId].exists
     THEN /\ chunkDirs' = [chunkDirs EXCEPT ![UploadId].files =
                 (ChunkFileName(idx[r]) :> ChunkSlice(fileSize, idx[r])) @@ @]
          /\ Goto(r, "stat")
          /\ UNCHANGED resp
     ELSE /\ Respond(r, 500, "Failed to upload chunk")
          /\ UNCHANGED chunkDirs
  /\ UNCHANGED <<jobVars, textVars, extraVars>>
  /\ UNCHANGED <<kind, fileSize, recs, chunkStore, finalFiles, videos, currentVideoId,
                 idx, upload, cause>>

\* upload.receivedChunks++; upload.totalSize += chunkStats.size
CountChunk(rec, size) ==
  [rec EXCEPT !.receivedChunks = @ + 1, !.totalSize = @ + size]

ChunkPresent(i) ==
  /\ chunkDirs[UploadId].exists
  /\ ChunkFileName(i) \in DOMAIN chunkDirs[UploadId].files

ChunkData(i) == chunkDirs[UploadId].files[ChunkFileName(i)]

\* fs.stat returned: the metadata update and the response.
ChunkStatDone(r) ==
  /\ pc[r] = "stat"
  /\ IF ChunkPresent(idx[r])
     THEN /\ recs' = [recs EXCEPT ![upload[r]] = CountChunk(@, Len(ChunkData(idx[r])))]
          /\ Respond(r, 200, "success")
     ELSE /\ Respond(r, 500, "Failed to upload chunk")
          /\ UNCHANGED recs
  /\ UNCHANGED <<jobVars, textVars, extraVars>>
  /\ UNCHANGED <<kind, fileSize, chunkStore, chunkDirs, finalFiles, videos, currentVideoId,
                 idx, upload, cause>>

\* ------------------------------------------- POST /api/finalize-upload

\* A faulty variant of the rejection below: it also deletes the session.
FinalizeRejectDropsSession(f, status, message) ==
  /\ Respond(f, status, message)
  /\ chunkStore' = [chunkStore EXCEPT ![UploadId] = NoRec]
  /\ UNCHANGED <<recs, chunkDirs, finalFiles, upload, idx>>
\* return res.status(4xx).json(...) before anything was touched
FinalizeReject(f, status, message) ==
  /\ Respond(f, status, message)
  /\ UNCHANGED <<recs, chunkStore, chunkDirs, finalFiles, upload, idx>>

\* if (upload.finalizing) return 409
AlreadyFinalizing(rec) == rec.finalizing

\* The request arrives: the three checks, the flag, createWriteStream and
\* the first fs.access, all before the first await.
FinalizeStart(f) ==
  /\ Arrives(f)
  /\ kind' = [kind EXCEPT ![f] = "finalize"]
  /\ LET rec == chunkStore[UploadId]
     IN IF rec = NoRec
        THEN FinalizeReject(f, 400, "Upload session not found")
        ELSE IF recs[rec].receivedChunks # recs[rec].totalChunks
        THEN FinalizeReject(f, 400, "Incomplete upload")
        ELSE IF AlreadyFinalizing(recs[rec])
        THEN FinalizeReject(f, 409, "Upload already being finalized")
        ELSE /\ recs' = [recs EXCEPT ![rec].finalizing = TRUE]
             /\ upload' = [upload EXCEPT ![f] = rec]
             /\ finalFiles' = [finalFiles EXCEPT ![f] = [exists |-> TRUE, data |-> <<>>]]
             /\ idx' = [idx EXCEPT ![f] = 0]
             /\ Goto(f, "access")
             /\ UNCHANGED <<chunkStore, chunkDirs, resp>>
  /\ UNCHANGED <<jobVars, textVars, extraVars>>
  /\ UNCHANGED <<fileSize, videos, currentVideoId, cause>>

\* throw inside the inner try: the catch block starts with fs.unlink(finalPath)
FinalizeThrow(f, error) ==
  /\ cause' = [cause EXCEPT ![f] = error]
  /\ Goto(f, "unlink")

\* fs.access(chunkPath) returned, or threw: throw new Error(`Missing chunk ${i}`)
FinalizeAccessDone(f) ==
  /\ pc[f] = "access"
  /\ IF ChunkPresent(idx[f])
     THEN /\ Goto(f, "read")
          /\ UNCHANGED cause
     ELSE FinalizeThrow(f, "missing_chunk")
  /\ UNCHANGED <<jobVars, textVars, extraVars>>
  /\ UNCHANGED <<kind, fileSize, recs, chunkStore, chunkDirs, finalFiles, videos,
                 currentVideoId, idx, upload, resp>>

\* fs.readFile(chunkPath) returned: writeStream.write(chunkData), i++, and
\* either the next fs.access or writeStream.end() and the wait for 'finish'.
FinalizeReadDone(f) ==
  /\ pc[f] = "read"
  /\ IF ChunkPresent(idx[f])
     THEN /\ finalFiles' = [finalFiles EXCEPT ![f].data =
                                WriteStreamWrite(@, ChunkData(idx[f]))]
          /\ idx' = [idx EXCEPT ![f] = @ + 1]
          /\ Goto(f, IF idx[f] + 1 < recs[upload[f]].totalChunks
                     THEN "access" ELSE "finish")
          /\ UNCHANGED cause
     ELSE /\ FinalizeThrow(f, "io_error")
          /\ UNCHANGED <<finalFiles, idx>>
  /\ UNCHANGED <<jobVars, textVars, extraVars>>
  /\ UNCHANGED <<kind, fileSize, recs, chunkStore, chunkDirs, videos, currentVideoId,
                 upload, resp>>

\* writeStream 'finish': storage.createVideo, then fs.rm(upload.chunkDir)
FinalizeFinishDone(f) ==
  /\ pc[f] = "finish"
  /\ videos' = videos \cup {[id |-> currentVideoId, path |-> f, size |-> fileSize]}
  /\ currentVideoId' = currentVideoId + 1
  /\ Goto(f, "rm")
  /\ UNCHANGED <<jobVars, textVars, extraVars>>
  /\ UNCHANGED <<kind, fileSize, recs, chunkStore, chunkDirs, finalFiles,
                 idx, upload, resp, cause>>

\* writeStream 'error': the promise rejects
FinalizeFinishError(f) ==
  /\ pc[f] = "finish"
  /\ FinalizeThrow(f, "io_error")
  /\ UNCHANGED <<jobVars, textVars, extraVars>>
  /\ UNCHANGED <<kind, fileSize, recs, chunkStore, chunkDirs, finalFiles, videos,
                 currentVideoId, idx, upload, resp>>

RemovedDir == [exists |-> FALSE, files |-> NoFiles]

\* fs.rm(chunkDir) returned: chunkStore.delete(uploadId); res.json(video)
FinalizeRmDone(f) ==
  /\ pc[f] = "rm"
  /\ chunkDirs' = [chunkDirs EXCEPT ![UploadId] = RemovedDir]
  /\ chunkStore' = [chunkStore EXCEPT ![UploadId] = NoRec]
  /\ Respond(f, 200, "video")
  /\ UNCHANGED <<jobVars, textVars, extraVars>>
  /\ UNCHANGED <<kind, fileSize, recs, finalFiles, videos, currentVideoId,
                 idx, upload, cause>>

\* fs.rm(chunkDir) threw on the success path: into the catch block
FinalizeRmError(f) ==
  /\ pc[f] = "rm"
  /\ FinalizeThrow(f, "io_error")
  /\ UNCHANGED <<jobVars, textVars, extraVars>>
  /\ UNCHANGED <<kind, fileSize, recs, chunkStore, chunkDirs, finalFiles, videos,
                 currentVideoId, idx, upload, resp>>

\* catch: fs.unlink(finalPath).catch(() => {}) returned
FinalizeUnlinkDone(f) ==
  /\ pc[f] = "unlink"
  /\ finalFiles' = [finalFiles EXCEPT ![f] = NoFinalFile]
  /\ Goto(f, "cleanup")
  /\ UNCHANGED <<jobVars, textVars, extraVars>>
  /\ UNCHANGED <<kind, fileSize, recs, chunkStore, chunkDirs, videos, currentVideoId,
                 idx, upload, resp, cause>>

\* The outer catch: console.error(error); res.status(500).json({ message })
OuterCatchResponse(error) == [status |-> 500, message |-> "Failed to finalize upload"]

\* chunkStore.delete(uploadId); throw error
FinalizeFailed(f) ==
  /\ chunkStore' = [chunkStore EXCEPT ![UploadId] = NoRec]
  /\ Respond(f, OuterCatchResponse(cause[f]).status, OuterCatchResponse(cause[f]).message)

\* catch: fs.rm(chunkDir) returned
FinalizeCleanupDone(f) ==
  /\ pc[f] = "cleanup"
  /\ chunkDirs' = [chunkDirs EXCEPT ![UploadId] = RemovedDir]
  /\ FinalizeFailed(f)
  /\ UNCHANGED <<jobVars, textVars, extraVars>>
  /\ UNCHANGED <<kind, fileSize, recs, finalFiles, videos, currentVideoId,
                 idx, upload, cause>>

\* catch: fs.rm(chunkDir) threw and the empty catch swallowed it
FinalizeCleanupError(f) ==
  /\ pc[f] = "cleanup"
  /\ FinalizeFailed(f)
  /\ UNCHANGED <<jobVars, textVars, extraVars>>
  /\ UNCHANGED <<kind, fileSize, recs, chunkDirs, finalFiles, videos, currentVideoId,
                 idx, upload, cause>>

UploadNext ==
  \/ \E r \in Reqs, i \in 0..(MaxChunks - 1) : ChunkStart(r, i)
  \/ \E r \in Reqs : ChunkMkdirDone(r)
  \/ \E r \in Reqs : ChunkRenameDone(r)
  \/ \E r \in Reqs : ChunkStatDone(r)
  \/ \E f \in Reqs : FinalizeStart(f)
  \/ \E f \in Reqs : FinalizeAccessDone(f)
  \/ \E f \in Reqs : FinalizeReadDone(f)
  \/ \E f \in Reqs : FinalizeFinishDone(f)
  \/ \E f \in Reqs : FinalizeFinishError(f)
  \/ \E f \in Reqs : FinalizeRmDone(f)
  \/ \E f \in Reqs : FinalizeRmError(f)
  \/ \E f \in Reqs : FinalizeUnlinkDone(f)
  \/ \E f \in Reqs : FinalizeCleanupDone(f)
  \/ \E f \in Reqs : FinalizeCleanupError(f)

\* ====================================================== job pipeline
\* POST /api/process-clips-direct for one source video, the export stages
\* it awaits, GET /api/processing-progress and POST /api/cancel-processing.

\* ------------------------------------------------------------------ bounds
\* The largest number of valid time ranges of a plan, the longest video in
\* 6-second GIF segments, the number of cancel requests, the number of
\* units of a concurrent stage whose ffmpeg run gets past its launch, and
\* the number of processing requests for the video.
MaxRanges == 1
MaxGifSegments == 2
MaxCancels == 2
MaxUnits == 2
MaxRuns == 2

Runs == 1..MaxRuns

\* ------------------------------------------------------ program constants
TotalGifs == 10
TotalThumbnails == 10
TotalCanvas == 5
GifSeconds == 6
ThumbnailUnits == 10
CanvasUnits == 5
ProgressCap == 95

NoJob == [status |-> "none"]
CancelNote == "Processing cancelled by user"

\* Math.round((a / b) * 100), for a >= 0 and b > 0
Round100(a, b) == (200 * a + b) \div (2 * b)

Flag(b) == IF b THEN 1 ELSE 0

\* aspectRatios.length
Ratios == Len(plan.aspectRatios)

TotalClips == plan.ranges * Ratios
TotalItems == TotalClips + Flag(plan.gif) + Flag(plan.thumbs) + Flag(plan.canvas)
TotalOutputs ==
  TotalClips + Flag(plan.gif) * TotalGifs + Flag(plan.thumbs) * TotalThumbnails
             + Flag(plan.canvas) * TotalCanvas

\* numGifs = Math.min(10, Math.floor(durationSeconds / 6))
NumGifs == Min(TotalGifs, plan.duration \div GifSeconds)

\* The request bodies: timestampText absent ("none"), of white space only
\* ("blank") or with lines ("cuts"), of which `ranges` are valid for the
\* video; aspectRatios; the three export flags; the video's duration.
\* A field the handler never reads for a plan takes one value.
Plans ==
  {p \in [text : {"none", "blank", "cuts"}, ranges : 0..MaxRanges,
          aspectRatios : {<<"16:9">>, <<"9:16">>, <<"16:9", "9:16">>},
          gif : BOOLEAN, thumbs : BOOLEAN, canvas : BOOLEAN,
          duration : {GifSeconds * k : k \in 1..MaxGifSegments}] :
     /\ p.text # "cuts" => p.ranges = 0
     /\ p.ranges = 0 => p.aspectRatios = <<"16:9">>
     /\ ~p.gif => p.duration = GifSeconds}

NoFlag == ~plan.gif /\ ~plan.thumbs /\ ~plan.canvas

\* Of the n units a stage launches, the ones followed to their end: the
\* first ones and the last. The others fail at launch (their 'error' event
\* reaches no job record and produces no artifact).
Running(n) == {i \in 1..n : i < MaxUnits \/ i = n}

IdleRun == [pc |-> "idle", clipCounter |-> 0, pending |-> {}, completed |-> 0,
            processedClips |-> {}, errors |-> <<>>, attempts |-> <<>>,
            fallbacks |-> <<>>, status |-> 0, message |-> "none",
            archive |-> FALSE]

JobInit ==
  /\ plan \in Plans
  /\ processingJobs = NoJob
  /\ run = [s \in Runs |-> IdleRun]
  /\ cancels = 0

\* processingJobs.set(videoId, {..., progress: 0, status: 'processing', errors: []})
CreatedJob ==
  [totalClips |-> TotalClips, totalGifs |-> Flag(plan.gif) * TotalGifs,
   totalThumbnails |-> Flag(plan.thumbs) * TotalThumbnails,
   totalCanvas |-> Flag(plan.canvas) * TotalCanvas,
   totalOutputs |-> TotalOutputs, currentClip |-> 0, progress |-> 0,
   status |-> "processing", errors |-> <<>>, downloadPath |-> "none"]

\* processingJobs.set(videoId, {..., progress: 100, status: 'completed', ...})
CompletedJob(errors) ==
  [totalClips |-> plan.ranges, totalGifs |-> Flag(plan.gif) * TotalGifs,
   totalThumbnails |-> Flag(plan.thumbs) * TotalThumbnails,
   totalCanvas |-> Flag(plan.canvas) * TotalCanvas,
   totalOutputs |-> plan.ranges + Flag(plan.gif) * TotalGifs
                      + Flag(plan.thumbs) * TotalThumbnails
                      + Flag(plan.canvas) * TotalCanvas,
   currentClip |-> plan.ranges, progress |-> 100,
   status |-> "completed", errors |-> errors, downloadPath |-> "zip"]

\* job.currentClip = clipCounter; job.progress = Math.round((clipCounter / totalClips) * 100)
ClipProgress(job, k) ==
  [job EXCEPT !.currentClip = k, !.progress = Round100(k, TotalClips)]

\* job.status = 'processing'; job.progress = Math.round((itemsCompleted / totalItems) * 100)
StageStart(job, itemsCompleted) ==
  [job EXCEPT !.status = "processing", !.progress = Round100(itemsCompleted, TotalItems)]

\* job.progress = Math.min(95, Math.round((completedItems / job.totalOutputs) * 100))
UnitProgress(job, completedItems) ==
  [job EXCEPT !.progress = Min(ProgressCap, Round100(completedItems, job.totalOutputs))]

\* The artifact paths pushed to processedClips
Artifact(category, n) == [category |-> category, n |-> n]

\* The aspect ratio of the pair the clip counter stands at: the ratios are
\* the inner loop.
RatioOf(k) == plan.aspectRatios[((k - 1) % Ratios) + 1]

\* `Failed to process clip ${clipCounter} [${aspectRatio}]: ...`
ClipError(k) == "Failed to process clip " \o ToString(k) \o " [" \o RatioOf(k) \o "]"

NoContentMessage == "No content was generated"
SuccessMessage == "Successfully processed"
FailedMessage == "Failed to process clips"
NoInputMessage == "Either timestamp text or export generation must be specified"
NoValidMessage == "No valid timestamps found and no exports requested"

\* res.status(...).json(...): the handler ends
Answer(r, status, message) ==
  [r EXCEPT !.pc = "done", !.status = status, !.message = message]

\* After the last stage: no artifact at all answers 500 and leaves the
\* registry as it is; otherwise the handler goes on to write the archive.
Finish(job, r) ==
  IF r.processedClips = {}
  THEN <<job, Answer(r, 500, NoContentMessage)>>
  ELSE <<job, [r EXCEPT !.pc = "package"]>>

\* zip.writeZip(zipPath) returned: the entry is replaced by the completed
\* record and the response reports success.
ZipWritten(job, r) ==
  <<CompletedJob(r.errors), [Answer(r, 200, SuccessMessage) EXCEPT !.archive = TRUE]>>

\* zip.addLocalFile or zip.writeZip threw: the outer catch answers 500 and
\* leaves the registry as it is.
ZipThrew(job, r) == <<job, Answer(r, 500, FailedMessage)>>

\* The outcomes of the packaging the handler runs in the same turn.
Package(next) ==
  IF next[2].pc = "package"
  THEN {ZipWritten(next[1], next[2]), ZipThrew(next[1], next[2])}
  ELSE {next}

\* The suffix of the archive name, `${finalOutputName}-${zipSuffix}.zip`
zipSuffix ==
  IF plan.ranges > 0 THEN "clips"
  ELSE IF plan.canvas THEN "canvas"
  ELSE IF plan.gif /\ plan.thumbs THEN "exports"
  ELSE IF plan.gif THEN "gifs"
  ELSE IF plan.thumbs THEN "thumbnails"
  ELSE "clips"

\* Stage 3: generateCanvasExports starts its five loops.
EnterCanvas(job, r) ==
  IF plan.canvas
  THEN <<StageStart(job, plan.ranges + Flag(plan.gif) + Flag(plan.thumbs)),
         [r EXCEPT !.pc = "canvas", !.pending = Running(CanvasUnits),
                   !.completed = CanvasUnits - Cardinality(Running(CanvasUnits))]>>
  ELSE Finish(job, r)

\* Stage 2: generateThumbnailExports starts its ten captures.
EnterThumbnails(job, r) ==
  IF plan.thumbs
  THEN <<StageStart(job, plan.ranges + Flag(plan.gif)),
         [r EXCEPT !.pc = "thumbnails", !.pending = Running(ThumbnailUnits)]>>
  ELSE EnterCanvas(job, r)

\* Stage 2: generateGifExport starts numGifs segments; Promise.allSettled of
\* no promise resolves at once.
EnterGifs(job, r) ==
  IF plan.gif
  THEN IF NumGifs = 0
       THEN EnterThumbnails(StageStart(job, plan.ranges), r)
       ELSE <<StageStart(job, plan.ranges),
              [r EXCEPT !.pc = "gifs", !.pending = Running(NumGifs)]>>
  ELSE EnterThumbnails(job, r)

\* The clip loop: the next (range, ratio) pair, or the export stages.
EnterClip(job, r, k) ==
  IF k <= TotalClips
  THEN <<ClipProgress(job, k),
         [r EXCEPT !.pc = "clip", !.clipCounter = k, !.attempts = Append(@, k)]>>
  ELSE EnterGifs(job, r)

\* The handler of request s goes on to its next await (or its response).
Continue(s, next) ==
  \E out \in Package(next) :
    /\ processingJobs' = out[1]
    /\ run' = [run EXCEPT ![s] = out[2]]

\* Requests are numbered in their order of arrival.
Submitted(s) == IF s = 0 THEN TRUE ELSE run[s].pc # "idle"

\* Request s arrives: the checks of the body, then the handler awaits
\* storage.getVideo.
Submit(s) ==
  /\ run[s].pc = "idle"
  /\ Submitted(s - 1)
  /\ run' = [run EXCEPT ![s] =
               IF plan.text = "none" /\ NoFlag
               THEN Answer(@, 400, NoInputMessage)
               ELSE [@ EXCEPT !.pc = "lookup"]]
  /\ UNCHANGED <<plan, processingJobs, cancels>>
  /\ UNCHANGED <<uploadVars, textVars, extraVars>>

\* storage.getVideo returned the video: a text that is not blank is parsed
\* and validated, and a plan left with no valid range and no export is
\* answered 400; otherwise the handler awaits its fs.mkdir calls.
VideoFound(s) ==
  /\ run[s].pc = "lookup"
  /\ run' = [run EXCEPT ![s] =
               IF plan.text = "cuts" /\ plan.ranges = 0 /\ NoFlag
               THEN Answer(@, 400, NoValidMessage)
               ELSE [@ EXCEPT !.pc = "setup"]]
  /\ UNCHANGED <<plan, processingJobs, cancels>>
  /\ UNCHANGED <<uploadVars, textVars, extraVars>>

\* The last fs.mkdir returned: the job record is set and the clip loop (or
\* the first export stage) starts in the same turn.
JobCreate(s) ==
  /\ run[s].pc = "setup"
  /\ Continue(s, EnterClip(CreatedJob, run[s], 1))
  /\ UNCHANGED <<plan, cancels>>
  /\ UNCHANGED <<uploadVars, textVars, extraVars>>

\* processedClips.push(outputPath); storage.createClip; the next pair
ClipProduced(s) ==
  Continue(s, EnterClip(processingJobs,
                        [run[s] EXCEPT !.processedClips =
                           @ \cup {Artifact("clip", run[s].clipCounter)}],
                        run[s].clipCounter + 1))

\* A faulty variant of the catch below: the error ends the clip loop.
ClipRejectedAborts(s) ==
  Continue(s, EnterGifs(processingJobs,
                        [run[s] EXCEPT !.errors = Append(@, ClipError(run[s].clipCounter))]))

\* catch: errors.push(`Failed to process clip ...`); the next pair
ClipRejected(s) ==
  Continue(s, EnterClip(processingJobs,
                        [run[s] EXCEPT !.errors = Append(@, ClipError(run[s].clipCounter))],
                        run[s].clipCounter + 1))

\* if (aspectRatio === '9:16'): the error handler starts a second encode
HasFallback(ratio) == ratio = "9:16"

\* processClipWithAspectRatio: the encode reported 'end'
ClipDone(s) ==
  /\ run[s].pc = "clip"
  /\ ClipProduced(s)
  /\ UNCHANGED <<plan, cancels>>
  /\ UNCHANGED <<uploadVars, textVars, extraVars>>

\* processClipWithAspectRatio: the encode reported 'error'. A 9:16 clip is
\* encoded again with the fallback filters; a 16:9 clip is rejected.
ClipFailed(s) ==
  /\ run[s].pc = "clip"
  /\ IF HasFallback(RatioOf(run[s].clipCounter))
     THEN /\ run' = [run EXCEPT ![s].pc = "fallback",
                                ![s].fallbacks = Append(@, run[s].clipCounter)]
          /\ UNCHANGED processingJobs
     ELSE ClipRejected(s)
  /\ UNCHANGED <<plan, cancels>>
  /\ UNCHANGED <<uploadVars, textVars, extraVars>>

\* The fallback encode reported 'end'
FallbackDone(s) ==
  /\ run[s].pc = "fallback"
  /\ ClipProduced(s)
  /\ UNCHANGED <<plan, cancels>>
  /\ UNCHANGED <<uploadVars, textVars, extraVars>>

\* The fallback encode reported 'error': reject(fallbackError)
FallbackFailed(s) ==
  /\ run[s].pc = "fallback"
  /\ ClipRejected(s)
  /\ UNCHANGED <<plan, cancels>>
  /\ UNCHANGED <<uploadVars, textVars, extraVars>>

\* A GIF's second pass ended: the progress update and resolveGif; the last
\* one to settle resumes the handler.
GifDone(s, i) ==
  /\ run[s].pc = "gifs"
  /\ i \in run[s].pending
  /\ LET job == UnitProgress(processingJobs, processingJobs.totalClips + i)
         r == [run[s] EXCEPT !.pending = @ \ {i},
                             !.processedClips = @ \cup {Artifact("gif", i)}]
     IN Continue(s, IF r.pending = {} THEN EnterThumbnails(job, r) ELSE <<job, r>>)
  /\ UNCHANGED <<plan, cancels>>
  /\ UNCHANGED <<uploadVars, textVars, extraVars>>

\* The stage as Promise.all would run it: the first rejection resumes the
\* handler while other units are still running
GifFailedRejectsStage(s, i) ==
  /\ run[s].pc = "gifs"
  /\ i \in run[s].pending
  /\ Continue(s, EnterThumbnails(processingJobs, [run[s] EXCEPT !.pending = @ \ {i}]))
  /\ UNCHANGED <<plan, cancels>>
  /\ UNCHANGED <<uploadVars, textVars, extraVars>>

\* A GIF pass failed: rejectGif
GifFailed(s, i) ==
  /\ run[s].pc = "gifs"
  /\ i \in run[s].pending
  /\ LET r == [run[s] EXCEPT !.pending = @ \ {i}]
     IN Continue(s, IF r.pending = {} THEN EnterThumbnails(processingJobs, r)
                    ELSE <<processingJobs, r>>)
  /\ UNCHANGED <<plan, cancels>>
  /\ UNCHANGED <<uploadVars, textVars, extraVars>>

\* A thumbnail capture ended: the progress update and resolveThumb
ThumbnailDone(s, i) ==
  /\ run[s].pc = "thumbnails"
  /\ i \in run[s].pending
  /\ LET job == UnitProgress(processingJobs,
                             processingJobs.totalClips + processingJobs.totalGifs + i)
         r == [run[s] EXCEPT !.pending = @ \ {i},
                             !.processedClips = @ \cup {Artifact("thumbnail", i)}]
     IN Continue(s, IF r.pending = {} THEN EnterCanvas(job, r) ELSE <<job, r>>)
  /\ UNCHANGED <<plan, cancels>>
  /\ UNCHANGED <<uploadVars, textVars, extraVars>>

\* A thumbnail capture failed: rejectThumb
ThumbnailFailed(s, i) ==
  /\ run[s].pc = "thumbnails"
  /\ i \in run[s].pending
  /\ LET r == [run[s] EXCEPT !.pending = @ \ {i}]
     IN Continue(s, IF r.pending = {} THEN EnterCanvas(processingJobs, r)
                    ELSE <<processingJobs, r>>)
  /\ UNCHANGED <<plan, cancels>>
  /\ UNCHANGED <<uploadVars, textVars, extraVars>>

\* A canvas loop's concatenation ended: completed++, the progress update,
\* and resolve(canvasPaths) when completed === totalCount
CanvasDone(s, i) ==
  /\ run[s].pc = "canvas"
  /\ i \in run[s].pending
  /\ LET job == UnitProgress(processingJobs,
                   processingJobs.totalClips + processingJobs.totalGifs
                     + processingJobs.totalThumbnails + run[s].completed + 1)
         r == [run[s] EXCEPT !.pending = @ \ {i}, !.completed = @ + 1,
                             !.processedClips = @ \cup {Artifact("canvas", i)}]
     IN Continue(s, IF r.completed = CanvasUnits THEN Finish(job, r) ELSE <<job, r>>)
  /\ UNCHANGED <<plan, cancels>>
  /\ UNCHANGED <<uploadVars, textVars, extraVars>>

\* One of a canvas loop's three passes failed: completed++
CanvasFailed(s, i) ==
  /\ run[s].pc = "canvas"
  /\ i \in run[s].pending
  /\ LET r == [run[s] EXCEPT !.pending = @ \ {i}, !.completed = @ + 1]
     IN Continue(s, IF r.completed = CanvasUnits THEN Finish(processingJobs, r)
                    ELSE <<processingJobs, r>>)
  /\ UNCHANGED <<plan, cancels>>
  /\ UNCHANGED <<uploadVars, textVars, extraVars>>

\* GET /api/processing-progress/:videoId: res.json(progress); NoJob stands
\* for the 404 answer
ProgressResponse == processingJobs

\* processingJobs.set(videoId, {...job, status: 'error', errors: [...job.errors, note]})
CancelledJob(job) ==
  [job EXCEPT !.status = "error", !.errors = Append(@, CancelNote)]

\* POST /api/cancel-processing/:videoId (404 when the video has no job)
Cancel ==
  /\ cancels < MaxCancels
  /\ processingJobs # NoJob
  /\ cancels' = cancels + 1
  /\ processingJobs' = CancelledJob(processingJobs)
  /\ UNCHANGED <<plan, run>>
  /\ UNCHANGED <<uploadVars, textVars, extraVars>>

\* The encode of a clip reports its end or its error.
EncodeReports(s) ==
  \/ ClipDone(s)
  \/ ClipFailed(s)
  \/ FallbackDone(s)
  \/ FallbackFailed(s)

\* Every other step of the handler of request s.
HandlerStep(s) ==
  \/ Submit(s)
  \/ VideoFound(s)
  \/ JobCreate(s)
  \/ \E i \in 1..TotalGifs : GifDone(s, i)
  \/ \E i \in 1..TotalGifs : GifFailed(s, i)
  \/ \E i \in 1..ThumbnailUnits : ThumbnailDone(s, i)
  \/ \E i \in 1..ThumbnailUnits : ThumbnailFailed(s, i)
  \/ \E i \in 1..CanvasUnits : CanvasDone(s, i)
  \/ \E i \in 1..CanvasUnits : CanvasFailed(s, i)

RunNext(s) == EncodeReports(s) \/ HandlerStep(s)

JobNext == RunNext(1) \/ Cancel

\* ------------------------------------------------------- specifications
\* Spec: the upload assembler, with no job submitted.
\* SpecJob: the job pipeline of one processing request, with no upload.
\* SpecJobLive: SpecJob where every external invocation returns.
\* SpecJobStall: SpecJob where an encode may never report.
\* SpecResubmit: several processing requests for the same video.

\* =================================================== timestamp text
\* A JavaScript string is the sequence of its characters.

\* The most lines a pasted timestamp text holds
MaxLines == 3

Digit == {"0", "1", "2", "3", "4", "5", "6", "7", "8", "9"}
Whitespace == {" "}
\* null, and the empty string: both falsy
Null == <<>>

DigitValue(c) == CHOOSE d \in 0..9 : ToString(d) = c

\* Number(s) and parseInt(s) of a string of decimal digits
RECURSIVE Number(_)
Number(s) ==
  IF s = <<>> THEN 0
  ELSE 10 * Number(SubSeq(s, 1, Len(s) - 1)) + DigitValue(s[Len(s)])

\* n.toString() of a whole number, and `${n}`
NumberToString(n) == [k \in 1..Len(Digits(n)) |-> ToString(Digits(n)[k])]

\* s.padStart(width, '0') of a string
RECURSIVE StringPadStart(_, _)
StringPadStart(s, width) ==
  IF Len(s) >= width THEN s ELSE StringPadStart(<<"0">> \o s, width)

\* s.trim()
RECURSIVE Trim(_)
Trim(s) ==
  IF s # <<>> /\ Head(s) \in Whitespace THEN Trim(Tail(s))
  ELSE IF s # <<>> /\ s[Len(s)] \in Whitespace
       THEN Trim(SubSeq(s, 1, Len(s) - 1))
       ELSE s

\* s.split(c) for a separator that is one character of the set seps
RECURSIVE Split(_, _)
Split(s, seps) ==
  IF \A k \in 1..Len(s) : s[k] \notin seps THEN <<s>>
  ELSE LET k == CHOOSE k \in 1..Len(s) :
                  s[k] \in seps /\ \A j \in 1..(k - 1) : s[j] \notin seps
       IN <<SubSeq(s, 1, k - 1)>> \o Split(SubSeq(s, k + 1, Len(s)), seps)

\* The characters of s as one string, for a message
RECURSIVE Text(_)
Text(s) == IF s = <<>> THEN "" ELSE Head(s) \o Text(Tail(s))

NonEmpty(s) == s # <<>>

\* text.split('\n').map(line => line.trim()).filter(line => line)
LinesOf(t) ==
  LET lines == Split(t, {"\n"})
  IN SelectSeq([k \in 1..Len(lines) |-> Trim(lines[k])], NonEmpty)

\* The characters of /[-,\s]+/ and the en dash, written "~" here
RangeSeparators == {"-", "~", ","} \cup Whitespace

\* line.split(rangeSeparators).filter(part => part.trim()): a run of
\* separators splits once, and the empty parts at the ends are filtered out
RangeParts(line) == SelectSeq(Split(line, RangeSeparators), NonEmpty)

\* timestamp.replace(/[;.]/g, ':')
ReplaceTimeSeparators(s) ==
  [k \in 1..Len(s) |-> IF s[k] \in {";", "."} THEN ":" ELSE s[k]]

AllDigits(s) == \A k \in 1..Len(s) : s[k] \in Digit

\* timestamp.match(/^(\d{1,2}):(\d{2})(?::(\d{2}))?$/): the captured groups
\* in the order of the pattern (the third is absent for two fields), or null
TimePattern(s) ==
  LET groups == Split(s, {":"})
  IN IF /\ Len(groups) \in {2, 3}
        /\ \A k \in 1..Len(groups) : AllDigits(groups[k])
        /\ Len(groups[1]) \in {1, 2}
        /\ Len(groups[2]) = 2
        /\ Len(groups) = 3 => Len(groups[3]) = 2
     THEN groups
     ELSE Null

Colon == <<":">>

\* Server normalizeTimestamp: const [, minutes, seconds, hours] = match
normalizeTimestamp(timestamp) ==
  LET match == TimePattern(ReplaceTimeSeparators(Trim(timestamp)))
  IN IF match # Null
     THEN LET minutes == match[1]
              seconds == match[2]
          IN IF Len(match) = 3
             THEN LET hours == match[3]
                  IN StringPadStart(hours, 2) \o Colon
                       \o StringPadStart(minutes, 2) \o Colon \o seconds
             ELSE <<"0", "0">> \o Colon
                    \o StringPadStart(minutes, 2) \o Colon \o seconds
     ELSE Null

\* Client normalizeTimestamp: the same destructuring, parseInt of each
\* group, and the check of mins and secs
normalizeTimestampClient(timestamp) ==
  LET match == TimePattern(ReplaceTimeSeparators(Trim(timestamp)))
  IN IF match # Null
     THEN LET mins == Number(match[1])
              secs == Number(match[2])
              hrs == IF Len(match) = 3 THEN Number(match[3]) ELSE 0
          IN IF secs >= 60 \/ mins >= 60 THEN Null
             ELSE IF Len(match) = 3
                  THEN StringPadStart(NumberToString(hrs), 2) \o Colon
                         \o StringPadStart(NumberToString(mins), 2) \o Colon
                         \o StringPadStart(NumberToString(secs), 2)
                  ELSE <<"0", "0">> \o Colon
                         \o StringPadStart(NumberToString(mins), 2) \o Colon
                         \o StringPadStart(NumberToString(secs), 2)
     ELSE Null

\* timestampToSeconds, server and client alike
timestampToSeconds(timestamp) ==
  LET fields == Split(timestamp, {":"})
      parts == [k \in 1..Len(fields) |-> Number(fields[k])]
  IN IF Len(parts) = 3 THEN parts[1] * 3600 + parts[2] * 60 + parts[3]
     ELSE IF Len(parts) = 2 THEN parts[1] * 60 + parts[2]
          ELSE 0

\* formatDuration(seconds) of the whole seconds of a video's length
formatDuration(seconds) ==
  LET hours == seconds \div 3600
      minutes == (seconds % 3600) \div 60
      secs == seconds % 60
  IN IF hours > 0
     THEN NumberToString(hours) \o Colon
            \o StringPadStart(NumberToString(minutes), 2) \o Colon
            \o StringPadStart(NumberToString(secs), 2)
     ELSE NumberToString(minutes) \o Colon
            \o StringPadStart(NumberToString(secs), 2)

\* Server parseTimestamps: the candidates of the lines whose first two parts
\* both normalize; any other line contributes nothing
RECURSIVE CandidatesOf(_)
CandidatesOf(lines) ==
  IF lines = <<>> THEN <<>>
  ELSE LET parts == RangeParts(Head(lines))
           startTime == normalizeTimestamp(Trim(parts[1]))
           endTime == normalizeTimestamp(Trim(parts[2]))
       IN (IF Len(parts) >= 2 /\ startTime # Null /\ endTime # Null
           THEN <<[startTime |-> startTime, endTime |-> endTime]>>
           ELSE <<>>) \o CandidatesOf(Tail(lines))

parseTimestamps(t) == CandidatesOf(LinesOf(t))

NoValidation == [valid |-> <<>>, errors |-> <<>>, warnings |-> <<>>]

\* n.toFixed(1) of a whole number
ToFixed1(n) == ToString(n) \o ".0"

StartError(i) == "Clip " \o ToString(i) \o ": Start time must be before end time"
DurationError(i) == "Clip " \o ToString(i) \o ": End time exceeds video duration"
OverlapWarning(i, j, overlapDuration) ==
  "Clip " \o ToString(i) \o " overlaps with clip " \o ToString(j)
    \o " by " \o ToFixed1(overlapDuration) \o " seconds"
NudgeWarning(i, startTime) ==
  "Clip " \o ToString(i) \o ": Starting at exact second (" \o Text(startTime)
    \o ") may show black frames. We'll automatically nudge it forward 0.1s for cleaner cuts."
EarlyWarning(i, startTime) ==
  "Clip " \o ToString(i) \o ": Very early start time (" \o Text(startTime)
    \o ") may be in fade-in area. Black frame protection is active."
ZeroWarning(i) ==
  "Clip " \o ToString(i)
    \o ": Starting at 0:00 often contains black frames. Consider starting at 0:01 or later."

Max(a, b) == IF a > b THEN a ELSE b

\* The loop over `valid` of validateTimestamps: a warning for each earlier
\* accepted clip j the clip i intersects (i and j are the code's i + 1 and
\* j + 1)
RECURSIVE OverlapWarnings(_, _, _, _, _)
OverlapWarnings(i, startSeconds, endSeconds, valid, j) ==
  IF j > Len(valid) THEN <<>>
  ELSE LET prevStartSeconds == timestampToSeconds(valid[j].startTime)
           prevEndSeconds == timestampToSeconds(valid[j].endTime)
           overlapStart == Max(startSeconds, prevStartSeconds)
           overlapEnd == Min(endSeconds, prevEndSeconds)
       IN (IF startSeconds < prevEndSeconds /\ endSeconds > prevStartSeconds
           THEN <<OverlapWarning(i, j, overlapEnd - overlapStart)>>
           ELSE <<>>)
            \o OverlapWarnings(i, startSeconds, endSeconds, valid, j + 1)

\* A faulty variant of the warnings below: the nudge warning also for a
\* start at 0
BlackFrameWarningsNudgeAtZero(i, startTime, startSeconds) ==
  <<NudgeWarning(i, startTime)>>
    \o (IF startSeconds < 1 THEN <<EarlyWarning(i, startTime)>> ELSE <<>>)
    \o (IF startSeconds = 0 THEN <<ZeroWarning(i)>> ELSE <<>>)
\* The three black frame warnings of validateTimestamps; a start parsed
\* from digits is a whole number, so startSeconds % 1 === 0
BlackFrameWarnings(i, startTime, startSeconds) ==
  (IF startSeconds > 0 THEN <<NudgeWarning(i, startTime)>> ELSE <<>>)
    \o (IF startSeconds < 1 THEN <<EarlyWarning(i, startTime)>> ELSE <<>>)
    \o (IF startSeconds = 0 THEN <<ZeroWarning(i)>> ELSE <<>>)

\* The for loop of validateTimestamps from candidate i on;
\* videoDurationSeconds is 0 where the code holds null or 0 (both falsy)
RECURSIVE ValidateFrom(_, _, _, _)
ValidateFrom(candidates, videoDurationSeconds, i, acc) ==
  IF i > Len(candidates) THEN acc
  ELSE LET startTime == candidates[i].startTime
           endTime == candidates[i].endTime
           startSeconds == timestampToSeconds(startTime)
           endSeconds == timestampToSeconds(endTime)
       IN IF startSeconds >= endSeconds
          THEN ValidateFrom(candidates, videoDurationSeconds, i + 1,
                 [acc EXCEPT !.errors = Append(@, StartError(i))])
          ELSE IF videoDurationSeconds # 0 /\ endSeconds > videoDurationSeconds
          THEN ValidateFrom(candidates, videoDurationSeconds, i + 1,
                 [acc EXCEPT !.errors = Append(@, DurationError(i))])
          ELSE ValidateFrom(candidates, videoDurationSeconds, i + 1,
                 [acc EXCEPT
                    !.warnings = @ \o OverlapWarnings(i, startSeconds, endSeconds,
                                                      acc.valid, 1)
                                   \o BlackFrameWarnings(i, startTime, startSeconds),
                    !.valid = Append(@, [startTime |-> startTime,
                                         endTime |-> endTime])])

\* videoDuration ? timestampToSeconds(videoDuration) : null
DurationSeconds(duration) ==
  IF duration # Null THEN timestampToSeconds(duration) ELSE 0

validateTimestamps(candidates, duration) ==
  ValidateFrom(candidates, DurationSeconds(duration), 1, NoValidation)

\* Client parseTimestampLine
parseTimestampLine(line) ==
  LET parts == RangeParts(line)
  IN IF Len(parts) < 2 THEN Null
     ELSE LET startTime == normalizeTimestampClient(Trim(parts[1]))
              endTime == normalizeTimestampClient(Trim(parts[2]))
          IN IF startTime = Null \/ endTime = Null THEN Null
             ELSE <<[startTime |-> startTime, endTime |-> endTime]>>

NoParseResult == [timestamps |-> <<>>, errors |-> <<>>, warnings |-> <<>>]

FormatError(lineNumber, line) ==
  "Line " \o ToString(lineNumber) \o ": Invalid format \"" \o Text(line) \o "\""
LineStartError(lineNumber) ==
  "Line " \o ToString(lineNumber) \o ": Start time must be before end time"
LineDurationError(lineNumber) ==
  "Line " \o ToString(lineNumber) \o ": End time exceeds video duration"
LineOverlapWarning(lineNumber, j) ==
  "Line " \o ToString(lineNumber) \o " overlaps with line " \o ToString(j)

RECURSIVE LineOverlapWarnings(_, _, _, _, _)
LineOverlapWarnings(lineNumber, startSeconds, endSeconds, accepted, j) ==
  IF j > Len(accepted) THEN <<>>
  ELSE (IF /\ startSeconds < timestampToSeconds(accepted[j].endTime)
           /\ endSeconds > timestampToSeconds(accepted[j].startTime)
        THEN <<LineOverlapWarning(lineNumber, j)>>
        ELSE <<>>)
         \o LineOverlapWarnings(lineNumber, startSeconds, endSeconds, accepted, j + 1)

\* The for loop of the client's parseTimestampText from line lineNumber on
RECURSIVE ParseTextFrom(_, _, _, _)
ParseTextFrom(lines, videoDurationSeconds, lineNumber, acc) ==
  IF lineNumber > Len(lines) THEN acc
  ELSE LET line == lines[lineNumber]
           found == parseTimestampLine(line)
       IN IF found = Null
          THEN ParseTextFrom(lines, videoDurationSeconds, lineNumber + 1,
                 [acc EXCEPT !.errors = Append(@, FormatError(lineNumber, line))])
          ELSE LET startSeconds == timestampToSeconds(found[1].startTime)
                   endSeconds == timestampToSeconds(found[1].endTime)
               IN IF startSeconds >= endSeconds
                  THEN ParseTextFrom(lines, videoDurationSeconds, lineNumber + 1,
                         [acc EXCEPT !.errors = Append(@, LineStartError(lineNumber))])
                  ELSE IF videoDurationSeconds # 0 /\ endSeconds > videoDurationSeconds
                  THEN ParseTextFrom(lines, videoDurationSeconds, lineNumber + 1,
                         [acc EXCEPT !.errors = Append(@, LineDurationError(lineNumber))])
                  ELSE ParseTextFrom(lines, videoDurationSeconds, lineNumber + 1,
                         [acc EXCEPT
                            !.warnings = @ \o LineOverlapWarnings(lineNumber,
                                               startSeconds, endSeconds,
                                               acc.timestamps, 1),
                            !.timestamps = Append(@,
                               [startTime |-> found[1].startTime,
                                endTime |-> found[1].endTime,
                                duration |-> endSeconds - startSeconds,
                                valid |-> TRUE])])

parseTimestampText(t, duration) ==
  ParseTextFrom(LinesOf(t), DurationSeconds(duration), 1, NoParseResult)

\* ---- the texts and videos of the parse requests

\* What a user types for a range
RangeLine(from, to) == from \o <<"-">> \o to

\* The lines a pasted text is made of: two separate ranges, one that
\* overlaps the first and touches the second, one past the end of a
\* 30-second video, one from 0:00, one backwards, one with a seconds field
\* of 75, and one that is no range
InputLines ==
  { RangeLine(formatDuration(16), formatDuration(35)),
    formatDuration(44) \o <<" ", "-", " ">> \o formatDuration(61),
    RangeLine(formatDuration(30), formatDuration(44)),
    RangeLine(formatDuration(20), formatDuration(40)),
    RangeLine(formatDuration(0), formatDuration(16)),
    RangeLine(formatDuration(35), formatDuration(16)),
    RangeLine(<<"1", ":", "7", "5">>, formatDuration(130)),
    formatDuration(16) }

RECURSIVE JoinLines(_)
JoinLines(lines) ==
  IF Len(lines) = 1 THEN lines[1]
  ELSE lines[1] \o <<"\n">> \o JoinLines(Tail(lines))

InputTexts ==
  UNION {{JoinLines(lines) : lines \in [1..n -> InputLines]} : n \in 1..MaxLines}

\* The whole seconds of the videos: under a second, and half a minute
VideoSeconds == {0, 30}

TimeIdle ==
  /\ text = <<>>
  /\ videoDuration = Null
  /\ timestamps = <<>>
  /\ validation = NoValidation
  /\ parseResult = NoParseResult
  /\ parsed = {}

TimeInit ==
  /\ text \in InputTexts
  /\ videoDuration \in {Null} \cup {formatDuration(d) : d \in VideoSeconds}
  /\ timestamps = <<>>
  /\ validation = NoValidation
  /\ parseResult = NoParseResult
  /\ parsed = {}

\* POST /api/parse-timestamps: parseTimestamps, then validateTimestamps
\* against video.duration; the response carries validation's three lists
ParseRequest ==
  /\ "server" \notin parsed
  /\ timestamps' = parseTimestamps(text)
  /\ validation' = validateTimestamps(timestamps', videoDuration)
  /\ parsed' = parsed \cup {"server"}
  /\ UNCHANGED <<text, videoDuration, parseResult>>
  /\ UNCHANGED <<uploadVars, jobVars, stampVars, cutVars, extraVars>>

\* The page parses the same text itself: parseTimestampText
ParseOnPage ==
  /\ "client" \notin parsed
  /\ parseResult' = parseTimestampText(text, videoDuration)
  /\ parsed' = parsed \cup {"client"}
  /\ UNCHANGED <<text, videoDuration, timestamps, validation>>
  /\ UNCHANGED <<uploadVars, jobVars, stampVars, cutVars, extraVars>>

TimeNext == ParseRequest \/ ParseOnPage

\* =================================================== the conversions

\* Math.random() returns one of 0/RandomSteps .. (RandomSteps-1)/RandomSteps
RandomSteps == 2

\* A fractional number of seconds (a double) is a whole number of ticks;
\* sixty times the square of RandomSteps ticks a second make every product
\* and quotient of generateRandomTimestamps exact
TicksPerSecond == 60 * RandomSteps * RandomSteps

Pad2(n) == StringPadStart(NumberToString(n), 2)

\* Server secondsToTimestamp(seconds)
secondsToTimestamp(ticks) ==
  LET hours == ticks \div (3600 * TicksPerSecond)
      minutes == (ticks % (3600 * TicksPerSecond)) \div (60 * TicksPerSecond)
      remainingSeconds == (ticks % (60 * TicksPerSecond)) \div TicksPerSecond
      milliseconds == ((ticks % TicksPerSecond) * 1000) \div TicksPerSecond
      fraction == <<".">> \o StringPadStart(NumberToString(milliseconds), 3)
  IN IF hours > 0
     THEN Pad2(hours) \o Colon \o Pad2(minutes) \o Colon
            \o Pad2(remainingSeconds) \o fraction
     ELSE Pad2(minutes) \o Colon \o Pad2(remainingSeconds) \o fraction

\* Client secondsToTimestamp(seconds) of whole seconds
secondsToTimestampClient(seconds) ==
  LET hours == seconds \div 3600
      minutes == (seconds % 3600) \div 60
      secs == seconds % 60
  IN Pad2(hours) \o Colon \o Pad2(minutes) \o Colon \o Pad2(secs)

\* ---- the strings handed to the conversions

StampHours == {0, 1, 9, 10, 99}
StampFields == {0, 5, 59, 60, 75}

\* h:mm:ss as typed, HH:MM:SS, and m:ss
InputStamps ==
  {NumberToString(h) \o Colon \o Pad2(m) \o Colon \o Pad2(s) :
     h \in StampHours, m \in StampFields, s \in StampFields}
  \cup {Pad2(h) \o Colon \o Pad2(m) \o Colon \o Pad2(s) :
     h \in StampHours, m \in StampFields, s \in StampFields}
  \cup {NumberToString(m) \o Colon \o Pad2(s) :
     m \in StampFields, s \in StampFields}

Sides == {"server", "client"}
NotCalled == [called |-> FALSE, value |-> Null]
Returned(value) == [called |-> TRUE, value |-> value]

StampIdle ==
  /\ stamp = <<>>
  /\ normalized = [side \in Sides |-> NotCalled]
  /\ roundTrip = [side \in Sides |-> NotCalled]

StampInit ==
  /\ stamp \in InputStamps
  /\ normalized = [side \in Sides |-> NotCalled]
  /\ roundTrip = [side \in Sides |-> NotCalled]

\* normalizeTimestamp(stamp) on the server
Normalize ==
  /\ ~normalized["server"].called
  /\ normalized' = [normalized EXCEPT !["server"] = Returned(normalizeTimestamp(stamp))]
  /\ UNCHANGED <<stamp, roundTrip>>
  /\ UNCHANGED <<uploadVars, jobVars, timeVars, cutVars, extraVars>>

\* normalizeTimestamp(stamp) on the client
NormalizeOnPage ==
  /\ ~normalized["client"].called
  /\ normalized' = [normalized EXCEPT
                      !["client"] = Returned(normalizeTimestampClient(stamp))]
  /\ UNCHANGED <<stamp, roundTrip>>
  /\ UNCHANGED <<uploadVars, jobVars, timeVars, cutVars, extraVars>>

\* secondsToTimestamp(timestampToSeconds(stamp)) on the server
Convert ==
  /\ ~roundTrip["server"].called
  /\ roundTrip' = [roundTrip EXCEPT
       !["server"] = Returned(secondsToTimestamp(
                                timestampToSeconds(stamp) * TicksPerSecond))]
  /\ UNCHANGED <<stamp, normalized>>
  /\ UNCHANGED <<uploadVars, jobVars, timeVars, cutVars, extraVars>>

\* secondsToTimestamp(timestampToSeconds(stamp)) on the client
ConvertOnPage ==
  /\ ~roundTrip["client"].called
  /\ roundTrip' = [roundTrip EXCEPT
       !["client"] = Returned(secondsToTimestampClient(timestampToSeconds(stamp)))]
  /\ UNCHANGED <<stamp, normalized>>
  /\ UNCHANGED <<uploadVars, jobVars, timeVars, cutVars, extraVars>>

StampNext == Normalize \/ NormalizeOnPage \/ Convert \/ ConvertOnPage

\* =================================================== the auto 5-cut generator

\* The whole seconds of the videos cuts are generated for
CutSeconds == {5, 6, 7, 10, 30, 60, 120, 7300}

\* The bracket of a duration: targetClips, and minClipDuration in seconds
targetClips(totalSeconds) ==
  IF totalSeconds < 30 THEN Max(2, totalSeconds \div 8)
  ELSE IF totalSeconds < 60 THEN Max(3, totalSeconds \div 15)
  ELSE IF totalSeconds < 120 THEN Max(4, totalSeconds \div 20)
  ELSE 5

minClipDuration(totalSeconds) ==
  IF totalSeconds < 30 THEN 3
  ELSE IF totalSeconds < 60 THEN 5
  ELSE IF totalSeconds < 120 THEN 8
  ELSE 15

\* maxClipDuration in ticks: Math.min(cap, totalSeconds / targetClips - 1)
maxClipDuration(totalSeconds) ==
  LET perClip == (totalSeconds * TicksPerSecond) \div targetClips(totalSeconds)
                   - TicksPerSecond
  IN IF totalSeconds < 30 THEN Min(5 * TicksPerSecond, perClip)
     ELSE IF totalSeconds < 60 THEN Min(10 * TicksPerSecond, perClip)
     ELSE IF totalSeconds < 120 THEN Min(15 * TicksPerSecond, perClip)
     ELSE 30 * TicksPerSecond

\* A faulty variant of the check below: a video of exactly the needed
\* duration is refused too
TooShortOrExact(totalSeconds) ==
  totalSeconds <= targetClips(totalSeconds) * minClipDuration(totalSeconds)
\* totalSeconds < totalNeededDuration
TooShort(totalSeconds) ==
  totalSeconds < targetClips(totalSeconds) * minClipDuration(totalSeconds)

Draws == 0..(RandomSteps - 1)

\* One pass of the while loop with the draws k1/RandomSteps and
\* k2/RandomSteps: clipDuration, buffer, maxStartTime, startTime, endTime
Candidate(totalSeconds, k1, k2) ==
  LET least == minClipDuration(totalSeconds) * TicksPerSecond
      clipDuration == (k1 * (maxClipDuration(totalSeconds) - least)) \div RandomSteps
                        + least
      buffer == Min(2 * TicksPerSecond, (totalSeconds * TicksPerSecond) \div 10)
      maxStartTime == totalSeconds * TicksPerSecond - clipDuration - buffer
      startTime == (k2 * maxStartTime) \div RandomSteps
  IN [start |-> startTime, end |-> startTime + clipDuration]

\* usedRanges.some(range => startTime < range.end && endTime > range.start)
Overlap(c, usedRanges) ==
  \E n \in 1..Len(usedRanges) :
    c.start < usedRanges[n].end /\ c.end > usedRanges[n].start

\* secondsToTimestamp(t).split('.')[0]
WholeSeconds(ticks) == Split(secondsToTimestamp(ticks), {"."})[1]

\* timestamps.sort((a, b) => timestampToSeconds(a.startTime) -
\* timestampToSeconds(b.startTime)): equal starts keep their order
RECURSIVE InsertByStart(_, _)
InsertByStart(sorted, x) ==
  IF sorted = <<>> THEN <<x>>
  ELSE IF timestampToSeconds(x.startTime) < timestampToSeconds(Head(sorted).startTime)
       THEN <<x>> \o sorted
       ELSE <<Head(sorted)>> \o InsertByStart(Tail(sorted), x)

RECURSIVE SortByStart(_)
SortByStart(list) ==
  IF list = <<>> THEN <<>>
  ELSE InsertByStart(SortByStart(SubSeq(list, 1, Len(list) - 1)), list[Len(list)])

NoCut == [pc |-> "start", i |-> 0, usedRanges |-> <<>>, timestamps |-> <<>>,
          status |-> 0, validation |-> NoValidation]

CutIdle ==
  /\ cutVideo = Null
  /\ randomCut = NoCut

CutInit ==
  /\ cutVideo \in {formatDuration(d) : d \in CutSeconds}
  /\ randomCut = NoCut

\* POST /api/generate-5-cuts on a video too short for its bracket: the
\* generator throws, the handler's catch answers 500
CutsTooShort ==
  /\ randomCut.pc = "start"
  /\ TooShort(timestampToSeconds(cutVideo))
  /\ randomCut' = [randomCut EXCEPT !.pc = "thrown", !.status = 500]
  /\ UNCHANGED cutVideo
  /\ UNCHANGED <<uploadVars, jobVars, timeVars, stampVars, extraVars>>

\* The generator passes the duration check and enters its for loop
CutsStart ==
  /\ randomCut.pc = "start"
  /\ ~TooShort(timestampToSeconds(cutVideo))
  /\ randomCut' = [randomCut EXCEPT !.pc = "loop"]
  /\ UNCHANGED cutVideo
  /\ UNCHANGED <<uploadVars, jobVars, timeVars, stampVars, extraVars>>

\* After the last clip: the sort, the return, validateTimestamps and the
\* response of the handler
AfterClip(cut) ==
  IF cut.i = targetClips(timestampToSeconds(cutVideo))
  THEN [cut EXCEPT !.pc = "returned",
                   !.timestamps = SortByStart(@),
                   !.status = 200,
                   !.validation = validateTimestamps(SortByStart(cut.timestamps),
                                                     cutVideo)]
  ELSE cut

\* One round of the for loop that ends with a clip: a draw that overlaps no
\* earlier range
ClipDrawn ==
  /\ randomCut.pc = "loop"
  /\ \E k1 \in Draws, k2 \in Draws :
       LET c == Candidate(timestampToSeconds(cutVideo), k1, k2)
       IN /\ ~Overlap(c, randomCut.usedRanges)
          /\ randomCut' = AfterClip(
               [randomCut EXCEPT
                  !.i = @ + 1,
                  !.usedRanges = Append(@, c),
                  !.timestamps = Append(@, [startTime |-> WholeSeconds(c.start),
                                            endTime |-> WholeSeconds(c.end)])])
  /\ UNCHANGED cutVideo
  /\ UNCHANGED <<uploadVars, jobVars, timeVars, stampVars, extraVars>>

\* One round of the for loop that ends without a clip: all 50 attempts drew
\* a range that overlaps an earlier one
ClipAbandoned ==
  /\ randomCut.pc = "loop"
  /\ \E k1 \in Draws, k2 \in Draws :
       Overlap(Candidate(timestampToSeconds(cutVideo), k1, k2), randomCut.usedRanges)
  /\ randomCut' = AfterClip([randomCut EXCEPT !.i = @ + 1])
  /\ UNCHANGED cutVideo
  /\ UNCHANGED <<uploadVars, jobVars, timeVars, stampVars, extraVars>>

CutNext == CutsTooShort \/ CutsStart \/ ClipDrawn \/ ClipAbandoned

TextIdle == TimeIdle /\ StampIdle /\ CutIdle

\* =================================================== whole-file upload

\* The largest free space of the volume and the largest received file, in
\* the same unit
MaxFree == 7
MaxUpload == 3

\* The uploads volume's other variables: everything but MemStorage
chunkVars == <<fileSize, recs, chunkStore, chunkDirs, finalFiles, kind, pc,
               idx, upload, resp, cause>>

NoUploadFile == [present |-> FALSE, size |-> 0]
UploadFile(size) == [present |-> TRUE, size |-> size]

\* { available: Infinity, total: Infinity }
InfiniteSpace == [finite |-> FALSE, available |-> 0]
\* { available: stats.bavail * stats.bsize, ... }
Space(available) == [finite |-> TRUE, available |-> available]

NoWholeUpload == [pc |-> "idle", file |-> NoUploadFile, stored |-> FALSE,
                  diskSpace |-> InfiniteSpace, status |-> 0]

WholeIdle ==
  /\ freeSpace = 0
  /\ wholeUpload = NoWholeUpload

\* upload.single('video') has run: the file, if one came, is in uploads/
WholeInit ==
  /\ freeSpace \in 0..MaxFree
  /\ \E file \in {NoUploadFile} \cup {UploadFile(n) : n \in 1..MaxUpload} :
       wholeUpload = [NoWholeUpload EXCEPT !.pc = "statfs", !.file = file,
                                           !.stored = file.present]

\* diskSpace.available < requiredSpace
Insufficient(diskSpace, requiredSpace) ==
  diskSpace.finite /\ diskSpace.available < requiredSpace

\* The handler from the return of checkDiskSpace to its next await
AfterCheck(diskSpace) ==
  LET w == [wholeUpload EXCEPT !.diskSpace = diskSpace]
  IN IF ~w.file.present THEN [w EXCEPT !.pc = "done", !.status = 400]
     ELSE IF Insufficient(diskSpace, w.file.size * 2)
          THEN [w EXCEPT !.pc = "unlink"]
          ELSE [w EXCEPT !.pc = "create"]

\* checkDiskSpace: fs.statfs('./uploads') returned
StatfsDone ==
  /\ wholeUpload.pc = "statfs"
  /\ wholeUpload' = AfterCheck(Space(freeSpace))
  /\ UNCHANGED <<freeSpace, uploadVars, jobVars, textVars, sweepVars, canvasVars, gifVars, fadeVars, pollVars, clientVars>>

\* checkDiskSpace: fs.statfs threw, the catch returns Infinity
StatfsError ==
  /\ wholeUpload.pc = "statfs"
  /\ wholeUpload' = AfterCheck(InfiniteSpace)
  /\ UNCHANGED <<freeSpace, uploadVars, jobVars, textVars, sweepVars, canvasVars, gifVars, fadeVars, pollVars, clientVars>>

\* fs.unlink(req.file.path) returned: status 507
UnlinkDone ==
  /\ wholeUpload.pc = "unlink"
  /\ wholeUpload' = [wholeUpload EXCEPT !.pc = "done", !.stored = FALSE,
                                        !.status = 507]
  /\ UNCHANGED <<freeSpace, uploadVars, jobVars, textVars, sweepVars, canvasVars, gifVars, fadeVars, pollVars, clientVars>>

\* fs.unlink(req.file.path) failed: .catch(() => {}), status 507
UnlinkError ==
  /\ wholeUpload.pc = "unlink"
  /\ wholeUpload' = [wholeUpload EXCEPT !.pc = "done", !.status = 507]
  /\ UNCHANGED <<freeSpace, uploadVars, jobVars, textVars, sweepVars, canvasVars, gifVars, fadeVars, pollVars, clientVars>>

\* storage.createVideo returned: res.json(video)
WholeVideoCreated ==
  /\ wholeUpload.pc = "create"
  /\ videos' = videos \cup {[id |-> currentVideoId, path |-> "upload",
                             size |-> wholeUpload.file.size]}
  /\ currentVideoId' = currentVideoId + 1
  /\ wholeUpload' = [wholeUpload EXCEPT !.pc = "done", !.status = 200]
  /\ UNCHANGED <<freeSpace, chunkVars, jobVars, textVars, sweepVars, canvasVars, gifVars, fadeVars, pollVars, clientVars>>

WholeNext ==
  StatfsDone \/ StatfsError \/ UnlinkDone \/ UnlinkError \/ WholeVideoCreated

\* =================================================== background cleanup

\* The plain files in ./uploads besides its two directories
MaxFiles == 2

PlainFiles == {"file" \o ToString(k) : k \in 1..MaxFiles}
\* uploads/chunks (multer's chunk destination and the staging directories)
\* and uploads/clips (the output directories and archives)
Directories == {"chunks", "clips"}
EntryNames == Directories \cup PlainFiles

NoSweep == [pc |-> "idle", files |-> <<>>, i |-> 0, due |-> {},
            startedOld |-> FALSE, ended |-> FALSE]

SweepIdle ==
  /\ uploadsDir = [n \in EntryNames |-> [exists |-> FALSE, old |-> FALSE]]
  /\ sessionOld = FALSE
  /\ sweep = NoSweep

\* The session the client left after the first of its two chunks
AbandonedSession ==
  /\ fileSize = ChunkSize + 1
  /\ recs = <<CountChunk(NewSession, ChunkSize)>>
  /\ chunkStore = [u \in UploadIds |-> 1]
  /\ chunkDirs = [u \in UploadIds |->
       [exists |-> TRUE,
        files |-> (ChunkFileName(0) :> ChunkSlice(fileSize, 0))]]
  /\ finalFiles = [f \in Reqs |-> NoFinalFile]
  /\ videos = {}
  /\ currentVideoId = 1
  /\ kind = [r \in Reqs |-> "none"]
  /\ pc = [r \in Reqs |-> "idle"]
  /\ idx = [r \in Reqs |-> 0]
  /\ upload = [r \in Reqs |-> NoRec]
  /\ resp = [r \in Reqs |-> NoResp]
  /\ cause = [r \in Reqs |-> "none"]

SweepInit ==
  /\ uploadsDir \in [EntryNames -> [exists : {TRUE}, old : BOOLEAN]]
  /\ sessionOld \in BOOLEAN
  /\ sweep = NoSweep

\* 24 hours go by in which nothing is written
DayPasses ==
  /\ ~sessionOld \/ \E n \in EntryNames : uploadsDir[n].exists /\ ~uploadsDir[n].old
  /\ uploadsDir' = [n \in EntryNames |-> [uploadsDir[n] EXCEPT !.old = TRUE]]
  /\ sessionOld' = TRUE
  /\ UNCHANGED <<sweep, uploadVars, jobVars, textVars, wholeVars, canvasVars, gifVars, fadeVars, pollVars, clientVars>>

\* setInterval fires: cleanupOldFiles awaits fs.readdir('./uploads')
SweepStart ==
  /\ sweep.pc = "idle"
  /\ sweep' = [NoSweep EXCEPT !.pc = "readdir"]
  /\ UNCHANGED <<uploadsDir, sessionOld, uploadVars, jobVars, textVars, wholeVars, canvasVars, gifVars, fadeVars, pollVars, clientVars>>

\* The orders readdir may return the names in
Orders(names) ==
  {f \in [1..Cardinality(names) -> names] :
     \A a \in DOMAIN f, b \in DOMAIN f : f[a] = f[b] => a = b}

\* The pass is over: the loop ran out, or the catch logged the failure
PassEnds(w) == [w EXCEPT !.pc = "idle", !.ended = TRUE]

\* The for loop goes on with the next name, if any
NextFile(w) ==
  IF w.i < Len(w.files) THEN [w EXCEPT !.pc = "stat", !.i = @ + 1]
  ELSE PassEnds(w)

\* fs.readdir returned
ReaddirDone ==
  /\ sweep.pc = "readdir"
  /\ \E files \in Orders({n \in EntryNames : uploadsDir[n].exists}) :
       sweep' = NextFile([sweep EXCEPT
                  !.files = files,
                  !.startedOld = sessionOld,
                  !.due = {n \in PlainFiles :
                             uploadsDir[n].exists /\ uploadsDir[n].old}])
  /\ UNCHANGED <<uploadsDir, sessionOld, uploadVars, jobVars, textVars, wholeVars, canvasVars, gifVars, fadeVars, pollVars, clientVars>>

\* fs.stat(filePath) returned: stats.mtime.getTime() < oneDayAgo
StatDone ==
  /\ sweep.pc = "stat"
  /\ sweep' = IF uploadsDir[sweep.files[sweep.i]].old
              THEN [sweep EXCEPT !.pc = "unlink"]
              ELSE NextFile(sweep)
  /\ UNCHANGED <<uploadsDir, sessionOld, uploadVars, jobVars, textVars, wholeVars, canvasVars, gifVars, fadeVars, pollVars, clientVars>>

\* fs.unlink(filePath) of a plain file returned
SweepUnlinkDone ==
  /\ sweep.pc = "unlink"
  /\ sweep.files[sweep.i] \in PlainFiles
  /\ uploadsDir' = [uploadsDir EXCEPT ![sweep.files[sweep.i]].exists = FALSE]
  /\ sweep' = NextFile(sweep)
  /\ UNCHANGED <<sessionOld, uploadVars, jobVars, textVars, wholeVars, canvasVars, gifVars, fadeVars, pollVars, clientVars>>

\* fs.unlink(filePath) of a directory throws (EISDIR): the catch around the
\* loop ends the pass
SweepUnlinkThrows ==
  /\ sweep.pc = "unlink"
  /\ sweep.files[sweep.i] \in Directories
  /\ sweep' = PassEnds(sweep)
  /\ UNCHANGED <<uploadsDir, sessionOld, uploadVars, jobVars, textVars, wholeVars, canvasVars, gifVars, fadeVars, pollVars, clientVars>>

SweepNext ==
  \/ DayPasses
  \/ SweepStart
  \/ ReaddirDone
  \/ StatDone
  \/ SweepUnlinkDone
  \/ SweepUnlinkThrows


\* ================================================ canvas segment choice

\* The durations of the videos, in seconds
CanvasSeconds == {8, 14, 30}

SegmentSeconds == 4
MinApartSeconds == 2
MinMaxStart == 10

\* Math.random() returns a multiple of 1/CanvasGrid here
CanvasGrid == TotalCanvas * RandomSteps
CanvasDraws == 0..(CanvasGrid - 1)

CanvasIdle ==
  /\ canvasDuration = 0
  /\ canvasStart = 0
  /\ segments = <<>>
  /\ canvasPc = "idle"

CanvasInit ==
  /\ canvasDuration \in CanvasSeconds
  /\ canvasStart = 0
  /\ segments = <<>>
  /\ canvasPc = "select"

\* maxStartTime = Math.max(10, videoDuration - 4), in seconds
CanvasMaxStart(videoSeconds) ==
  IF videoSeconds - SegmentSeconds > MinMaxStart
  THEN videoSeconds - SegmentSeconds ELSE MinMaxStart

\* startSeconds = Math.random() * maxStartTime, in ticks
StartTicks(k) == (k * CanvasMaxStart(canvasDuration) * TicksPerSecond) \div CanvasGrid

Abs(n) == IF n < 0 THEN -n ELSE n

\* segments.some(seg => Math.abs(seg.start - startSeconds) < 2)
hasOverlap(startTicks) ==
  \E j \in 1..Len(segments) :
    Abs(segments[j].start - startTicks) < MinApartSeconds * TicksPerSecond

\* One pass of the while loop: the draw is kept
SegmentDrawn ==
  /\ canvasPc = "select"
  /\ Len(segments) < TotalCanvas
  /\ \E k \in CanvasDraws :
       /\ ~hasOverlap(StartTicks(k))
       /\ canvasStart' = StartTicks(k)
       /\ segments' = Append(segments,
            [start |-> StartTicks(k),
             startTime |-> secondsToTimestamp(StartTicks(k))])
  /\ UNCHANGED <<canvasDuration, canvasPc>>
  /\ UNCHANGED <<uploadVars, jobVars, textVars, wholeVars, sweepVars, gifVars, fadeVars, pollVars, clientVars>>

\* One pass of the while loop: the draw is dropped
SegmentRedrawn ==
  /\ canvasPc = "select"
  /\ Len(segments) < TotalCanvas
  /\ \E k \in CanvasDraws :
       /\ hasOverlap(StartTicks(k))
       /\ canvasStart' = StartTicks(k)
  /\ UNCHANGED <<canvasDuration, segments, canvasPc>>
  /\ UNCHANGED <<uploadVars, jobVars, textVars, wholeVars, sweepVars, gifVars, fadeVars, pollVars, clientVars>>

\* The loop is left: segments.forEach starts the five extractions and the
\* timeout is set
CanvasLaunch ==
  /\ canvasPc = "select"
  /\ Len(segments) = TotalCanvas
  /\ canvasPc' = "launched"
  /\ UNCHANGED <<canvasDuration, canvasStart, segments>>
  /\ UNCHANGED <<uploadVars, jobVars, textVars, wholeVars, sweepVars, gifVars, fadeVars, pollVars, clientVars>>

CanvasNext ==
  \/ SegmentDrawn
  \/ SegmentRedrawn
  \/ CanvasLaunch


\* ================================================== GIF segment choice

\* The durations of the videos, in seconds
GifVideoSeconds == {6, 12, 18, 24}

MaxPlacementAttempts == 50

\* numGifs = Math.min(10, Math.floor(durationSeconds / 6))
numGifs(durationSeconds) == Min(TotalGifs, durationSeconds \div GifSeconds)

\* let startTime = 0; let attempts = 0; let validPosition = false
NewPlacement == [startTime |-> 0, attempts |-> 0, validPosition |-> FALSE]

GifIdle ==
  /\ gifDuration = 0
  /\ gifRanges = <<>>
  /\ placement = NewPlacement
  /\ gifStarts = <<>>
  /\ gifPc = "idle"

GifInit ==
  /\ gifDuration \in GifVideoSeconds
  /\ gifRanges = <<>>
  /\ placement = NewPlacement
  /\ gifStarts = <<>>
  /\ gifPc = "place"

\* startTime = Math.random() * (durationSeconds - 6), in ticks
GifStartTicks(k) == (k * (gifDuration - GifSeconds) * TicksPerSecond) \div RandomSteps

\* usedRanges.some(range => startTime < range.end && endTime > range.start)
GifOverlap(startTime, endTime) ==
  \E j \in 1..Len(gifRanges) :
    startTime < gifRanges[j].end /\ endTime > gifRanges[j].start

\* while (!validPosition && attempts < 50)
Placing ==
  /\ gifPc = "place"
  /\ Len(gifStarts) < numGifs(gifDuration)
  /\ ~placement.validPosition
  /\ placement.attempts < MaxPlacementAttempts

\* One pass of the while loop
PlacementAttempt ==
  /\ Placing
  /\ \E k \in Draws :
       LET startTime == GifStartTicks(k)
           endTime == startTime + GifSeconds * TicksPerSecond
       IN IF GifOverlap(startTime, endTime)
          THEN /\ placement' = [placement EXCEPT !.startTime = startTime,
                                                 !.attempts = @ + 1]
               /\ UNCHANGED gifRanges
          ELSE /\ placement' = [startTime |-> startTime,
                                attempts |-> placement.attempts + 1,
                                validPosition |-> TRUE]
               /\ gifRanges' = Append(gifRanges,
                                       [start |-> startTime, end |-> endTime])
  /\ UNCHANGED <<gifDuration, gifStarts, gifPc>>
  /\ UNCHANGED <<uploadVars, jobVars, textVars, wholeVars, sweepVars, canvasVars, fadeVars, pollVars, clientVars>>

\* The while loop is left: the two ffmpeg passes of the GIF are set up with
\* startTime, and the for loop goes on
GifPromised ==
  /\ gifPc = "place"
  /\ Len(gifStarts) < numGifs(gifDuration)
  /\ ~Placing
  /\ gifStarts' = Append(gifStarts, placement.startTime)
  /\ placement' = IF Len(gifStarts) + 1 < numGifs(gifDuration)
                  THEN NewPlacement ELSE placement
  /\ UNCHANGED <<gifDuration, gifRanges, gifPc>>
  /\ UNCHANGED <<uploadVars, jobVars, textVars, wholeVars, sweepVars, canvasVars, fadeVars, pollVars, clientVars>>

\* The for loop is left: await Promise.allSettled(promises)
GifsLaunched ==
  /\ gifPc = "place"
  /\ Len(gifStarts) = numGifs(gifDuration)
  /\ gifPc' = "launched"
  /\ UNCHANGED <<gifDuration, gifRanges, placement, gifStarts>>
  /\ UNCHANGED <<uploadVars, jobVars, textVars, wholeVars, sweepVars, canvasVars, fadeVars, pollVars, clientVars>>

GifNext ==
  \/ PlacementAttempt
  \/ GifPromised
  \/ GifsLaunched


\* ========================================================= fade filters

\* The clips' durations (1, 2, 3 and 10 seconds) and the fade durations a
\* request body carries (the page offers 0.3, 0.5, 0.8 and 1.0), both in
\* tenths of a second
ClipTenths == {10, 20, 30, 100}
FadeTenths == {0, 3, 5, 8, 10, 20}

NoFilters == [built |-> FALSE, video |-> <<>>, audio |-> <<>>]

FadeIdle ==
  /\ fadeInput = [duration |-> 0, videoFade |-> FALSE, audioFade |-> FALSE,
                  fadeDuration |-> 0]
  /\ fadeFilters = NoFilters

FadeInit ==
  /\ fadeInput \in [duration : ClipTenths,
                    videoFade : BOOLEAN, audioFade : BOOLEAN,
                    fadeDuration : FadeTenths]
  /\ fadeFilters = NoFilters

\* fade=t=in:st=0:d=${fadeDuration}, fade=t=out:st=${duration - fadeDuration}:d=${fadeDuration}
FadeInOut(duration, fadeDuration) ==
  <<[t |-> "in", st |-> 0, d |-> fadeDuration],
    [t |-> "out", st |-> duration - fadeDuration, d |-> fadeDuration]>>

\* processClipWithAspectRatio: if (videoFade) ..., if (audioFade) ...
AspectRatioFilters(in) ==
  [built |-> TRUE,
   video |-> IF in.videoFade THEN FadeInOut(in.duration, in.fadeDuration) ELSE <<>>,
   audio |-> IF in.audioFade THEN FadeInOut(in.duration, in.fadeDuration) ELSE <<>>]

\* processClip: if (videoFade && fadeDuration) ..., if (audioFade && fadeDuration) ...
ClipFilters(in) ==
  [built |-> TRUE,
   video |-> IF in.videoFade /\ in.fadeDuration # 0
             THEN FadeInOut(in.duration, in.fadeDuration) ELSE <<>>,
   audio |-> IF in.audioFade /\ in.fadeDuration # 0
             THEN FadeInOut(in.duration, in.fadeDuration) ELSE <<>>]

\* processClipWithAspectRatio hands its command to ffmpeg
EncodeWithAspectRatio ==
  /\ ~fadeFilters.built
  /\ fadeFilters' = AspectRatioFilters(fadeInput)
  /\ UNCHANGED fadeInput
  /\ UNCHANGED <<uploadVars, jobVars, textVars, wholeVars, sweepVars, canvasVars, gifVars, pollVars, clientVars>>

\* processClip hands its command to ffmpeg
EncodeClip ==
  /\ ~fadeFilters.built
  /\ fadeFilters' = ClipFilters(fadeInput)
  /\ UNCHANGED fadeInput
  /\ UNCHANGED <<uploadVars, jobVars, textVars, wholeVars, sweepVars, canvasVars, gifVars, pollVars, clientVars>>

FadeNext ==
  \/ EncodeWithAspectRatio
  \/ EncodeClip


\* ================================================ the page and its polls

\* The processing requests the page makes for its video
MaxSubmits == 3

Submits == 1..MaxSubmits

NoEntry == [status |-> "none", owner |-> 0]
NoPoll == [pc |-> "none", data |-> NoEntry]

\* setStatus({isProcessing, ..., downloadPath}); `shown` is the request whose
\* archive downloadPath names, 0 for none
IdlePage == [request |-> 0, pc |-> "idle", isProcessing |-> FALSE, shown |-> 0]

PollIdle ==
  /\ registry = NoEntry
  /\ requests = [n \in Submits |-> "unsent"]
  /\ page = IdlePage
  /\ poll = NoPoll

PollInit == PollIdle

\* handleProcessClips up to its first await: setStatus({isProcessing: true,
\* ...}), the POST is sent and not awaited, the interval is cleared, and
\* pollProgress sends its GET
handleProcessClips ==
  /\ ~page.isProcessing
  /\ page.request < MaxSubmits
  /\ poll.pc = "none"
  /\ page' = [request |-> page.request + 1, pc |-> "initial",
              isProcessing |-> TRUE, shown |-> 0]
  /\ requests' = [requests EXCEPT ![page.request + 1] = "sent"]
  /\ poll' = [NoPoll EXCEPT !.pc = "sent"]
  /\ UNCHANGED registry
  /\ UNCHANGED <<uploadVars, jobVars, textVars, wholeVars, sweepVars, canvasVars, gifVars, fadeVars, clientVars>>

\* POST /api/process-clips-direct arrives: the checks of the body, then the
\* handler awaits storage.getVideo and the mkdirs
PostArrives(n) ==
  /\ requests[n] = "sent"
  /\ requests' = [requests EXCEPT ![n] = "setup"]
  /\ UNCHANGED <<registry, page, poll>>
  /\ UNCHANGED <<uploadVars, jobVars, textVars, wholeVars, sweepVars, canvasVars, gifVars, fadeVars, clientVars>>

\* processingJobs.set(videoId, {..., status: 'processing'})
JobCreated(n) ==
  /\ requests[n] = "setup"
  /\ requests' = [requests EXCEPT ![n] = "running"]
  /\ registry' = [status |-> "processing", owner |-> n]
  /\ UNCHANGED <<page, poll>>
  /\ UNCHANGED <<uploadVars, jobVars, textVars, wholeVars, sweepVars, canvasVars, gifVars, fadeVars, clientVars>>

\* processingJobs.set(videoId, {..., status: 'completed', downloadPath})
\* and the response
JobCompleted(n) ==
  /\ requests[n] = "running"
  /\ requests' = [requests EXCEPT ![n] = "answered"]
  /\ registry' = [status |-> "completed", owner |-> n]
  /\ UNCHANGED <<page, poll>>
  /\ UNCHANGED <<uploadVars, jobVars, textVars, wholeVars, sweepVars, canvasVars, gifVars, fadeVars, clientVars>>

\* The handler answers 500 ("No content was generated", or the outer catch)
\* and leaves the registry as it is
JobFailed(n) ==
  /\ requests[n] = "running"
  /\ requests' = [requests EXCEPT ![n] = "refused"]
  /\ UNCHANGED <<registry, page, poll>>
  /\ UNCHANGED <<uploadVars, jobVars, textVars, wholeVars, sweepVars, canvasVars, gifVars, fadeVars, clientVars>>

\* await processPromise throws on the page: the interval is cleared and the
\* catch sets isProcessing: false and the error
ProcessRejected ==
  /\ page.request > 0
  /\ requests[page.request] = "refused"
  /\ page.isProcessing
  /\ page.pc = "polling"
  /\ poll.pc = "none"
  /\ requests' = [requests EXCEPT ![page.request] = "answered"]
  /\ page' = [page EXCEPT !.pc = "failed", !.isProcessing = FALSE]
  /\ UNCHANGED <<registry, poll>>
  /\ UNCHANGED <<uploadVars, jobVars, textVars, wholeVars, sweepVars, canvasVars, gifVars, fadeVars, clientVars>>

\* GET /api/processing-progress/:videoId: res.json(processingJobs.get(videoId)),
\* or 404 and pollProgress returns null
ProgressServed ==
  /\ poll.pc = "sent"
  /\ poll' = [pc |-> "answered", data |-> registry]
  /\ UNCHANGED <<registry, requests, page>>
  /\ UNCHANGED <<uploadVars, jobVars, textVars, wholeVars, sweepVars, canvasVars, gifVars, fadeVars, clientVars>>

\* The page on a completed record: setStatus({isProcessing: false,
\* downloadPath: data.downloadPath}), the toast, onProcessingComplete()
ReportComplete(data) ==
  [page EXCEPT !.pc = "complete", !.isProcessing = FALSE, !.shown = data.owner]

\* What the page does with an answer of a poll
OnProgress(data) ==
  IF data.status = "completed" THEN ReportComplete(data)
  ELSE [page EXCEPT !.pc = "polling"]

\* pollProgress returned: the immediate poll, or a tick of the interval
ProgressReceived ==
  /\ poll.pc = "answered"
  /\ page' = OnProgress(poll.data)
  /\ poll' = NoPoll
  /\ UNCHANGED <<registry, requests>>
  /\ UNCHANGED <<uploadVars, jobVars, textVars, wholeVars, sweepVars, canvasVars, gifVars, fadeVars, clientVars>>

\* setInterval(..., 1000) fires
IntervalFires ==
  /\ page.pc = "polling"
  /\ poll.pc = "none"
  /\ poll' = [NoPoll EXCEPT !.pc = "sent"]
  /\ UNCHANGED <<registry, requests, page>>
  /\ UNCHANGED <<uploadVars, jobVars, textVars, wholeVars, sweepVars, canvasVars, gifVars, fadeVars, clientVars>>

PollNext ==
  \/ handleProcessClips
  \/ \E n \in Submits : PostArrives(n) \/ JobCreated(n) \/ JobCompleted(n) \/ JobFailed(n)
  \/ ProcessRejected
  \/ ProgressServed
  \/ ProgressReceived
  \/ IntervalFires


\* ================================================ the chunking client

\* The most chunks of a file
MaxClientChunks == 5

BatchSize == 3

ChunkIndexes == 0..(MaxClientChunks - 1)

ClientIdle ==
  /\ fileSizeClient = 0
  /\ batchStart = 0
  /\ chunkFetch = [i \in ChunkIndexes |-> "unsent"]
  /\ uploadedBytes = 0
  /\ sentLog = <<>>
  /\ clientPc = "idle"

ClientInit ==
  /\ fileSizeClient \in 1..(ChunkSize * MaxClientChunks)
  /\ batchStart = 0
  /\ chunkFetch = [i \in ChunkIndexes |-> "unsent"]
  /\ uploadedBytes = 0
  /\ sentLog = <<>>
  /\ clientPc = "idle"

\* The indexes of the batch that starts at `first`:
\* batchEnd = Math.min(batchStart + batchSize, totalChunks)
Batch(first) == first..(Min(first + BatchSize, TotalChunksOf(fileSizeClient)) - 1)

\* fetch('/api/upload-chunk') of chunk i; fetch('/api/finalize-upload')
ChunkRequest(i) == [to |-> "upload-chunk", chunkIndex |-> i]
FinalizeRequest == [to |-> "finalize-upload", chunkIndex |-> 0]

\* The chunk requests from a to b in ascending order
Ascending(a, b) == [k \in 1..(b - a + 1) |-> ChunkRequest(a + k - 1)]

\* The for loop from `first` on: the fetches of the next batch are sent and
\* Promise.all awaited, or the loop is left and the finalize fetch is sent
SendFrom(first) ==
  IF first < TotalChunksOf(fileSizeClient)
  THEN /\ chunkFetch' = [i \in ChunkIndexes |->
                           IF i \in Batch(first) THEN "inflight" ELSE chunkFetch[i]]
       /\ sentLog' = sentLog \o Ascending(first, Min(first + BatchSize, TotalChunksOf(fileSizeClient)) - 1)
       /\ clientPc' = "batch"
  ELSE /\ sentLog' = Append(sentLog, FinalizeRequest)
       /\ clientPc' = "finalize"
       /\ UNCHANGED chunkFetch

\* uploadFileInChunks is called
UploadStart ==
  /\ clientPc = "idle"
  /\ batchStart' = 0
  /\ SendFrom(0)
  /\ UNCHANGED <<fileSizeClient, uploadedBytes>>
  /\ UNCHANGED <<uploadVars, jobVars, textVars, wholeVars, sweepVars, canvasVars, gifVars, fadeVars, pollVars>>

\* A chunk's response is ok: uploadedBytes += chunk.size
ChunkAccepted(i) ==
  /\ chunkFetch[i] = "inflight"
  /\ chunkFetch' = [chunkFetch EXCEPT ![i] = "ok"]
  /\ uploadedBytes' = uploadedBytes + Len(ChunkSlice(fileSizeClient, i))
  /\ UNCHANGED <<fileSizeClient, batchStart, sentLog, clientPc>>
  /\ UNCHANGED <<uploadVars, jobVars, textVars, wholeVars, sweepVars, canvasVars, gifVars, fadeVars, pollVars>>

\* A chunk's response is not ok, or its fetch rejects (the 60-second
\* signal included): the chunk's promise rejects
ChunkRefused(i) ==
  /\ chunkFetch[i] = "inflight"
  /\ chunkFetch' = [chunkFetch EXCEPT ![i] = "failed"]
  /\ UNCHANGED <<fileSizeClient, batchStart, uploadedBytes, sentLog, clientPc>>
  /\ UNCHANGED <<uploadVars, jobVars, textVars, wholeVars, sweepVars, canvasVars, gifVars, fadeVars, pollVars>>

\* The batch as Promise.allSettled would join it
BatchSettled(first) ==
  \A i \in Batch(first) : chunkFetch[i] \in {"ok", "failed"}

\* Promise.all(batchPromises) is fulfilled
BatchFulfilled(first) ==
  \A i \in Batch(first) : chunkFetch[i] = "ok"

\* await Promise.all returns: the loop goes on
BatchJoined ==
  /\ clientPc = "batch"
  /\ BatchFulfilled(batchStart)
  /\ batchStart' = batchStart + BatchSize
  /\ SendFrom(batchStart + BatchSize)
  /\ UNCHANGED <<fileSizeClient, uploadedBytes>>
  /\ UNCHANGED <<uploadVars, jobVars, textVars, wholeVars, sweepVars, canvasVars, gifVars, fadeVars, pollVars>>

\* await Promise.all throws at the first rejection: uploadFileInChunks
\* throws, the other fetches of the batch stay in flight
BatchRejected ==
  /\ clientPc = "batch"
  /\ \E i \in Batch(batchStart) : chunkFetch[i] = "failed"
  /\ clientPc' = "thrown"
  /\ UNCHANGED <<fileSizeClient, batchStart, chunkFetch, uploadedBytes, sentLog>>
  /\ UNCHANGED <<uploadVars, jobVars, textVars, wholeVars, sweepVars, canvasVars, gifVars, fadeVars, pollVars>>

\* The finalize response: returned if ok, else 'Failed to finalize upload'
FinalizeAnswered ==
  /\ clientPc = "finalize"
  /\ clientPc' \in {"returned", "thrown"}
  /\ UNCHANGED <<fileSizeClient, batchStart, chunkFetch, uploadedBytes, sentLog>>
  /\ UNCHANGED <<uploadVars, jobVars, textVars, wholeVars, sweepVars, canvasVars, gifVars, fadeVars, pollVars>>

ClientNext ==
  \/ UploadStart
  \/ \E i \in ChunkIndexes : ChunkAccepted(i) \/ ChunkRefused(i)
  \/ BatchJoined
  \/ BatchRejected
  \/ FinalizeAnswered

ExtraIdle ==
  /\ WholeIdle /\ SweepIdle /\ CanvasIdle /\ GifIdle /\ FadeIdle /\ PollIdle
  /\ ClientIdle

UploadIdle ==
  /\ fileSize = 1
  /\ recs = <<>>
  /\ chunkStore = [u \in UploadIds |-> NoRec]
  /\ chunkDirs = [u \in UploadIds |-> [exists |-> FALSE, files |-> NoFiles]]
  /\ finalFiles = [f \in Reqs |-> NoFinalFile]
  /\ videos = {}
  /\ currentVideoId = 1
  /\ kind = [r \in Reqs |-> "none"]
  /\ pc = [r \in Reqs |-> "idle"]
  /\ idx = [r \in Reqs |-> 0]
  /\ upload = [r \in Reqs |-> NoRec]
  /\ resp = [r \in Reqs |-> NoResp]
  /\ cause = [r \in Reqs |-> "none"]

JobIdle ==
  /\ plan = [text |-> "cuts", ranges |-> 1, aspectRatios |-> <<"16:9">>,
             gif |-> FALSE, thumbs |-> FALSE, canvas |-> FALSE,
             duration |-> GifSeconds]
  /\ processingJobs = NoJob
  /\ run = [s \in Runs |-> IdleRun]
  /\ cancels = 0

vars == <<uploadVars, jobVars, textVars, extraVars>>

Init == UploadInit /\ JobIdle /\ TextIdle /\ ExtraIdle
Next == UploadNext
Spec == Init /\ [][Next]_vars

InitJob == JobInit /\ UploadIdle /\ TextIdle /\ ExtraIdle
NextJob == JobNext
SpecJob == InitJob /\ [][NextJob]_vars

\* Every external invocation returns: a request that arrived is handled,
\* and every ffmpeg run the pipeline waits for ends or fails. Nobody has to
\* cancel.
PipelineStep == RunNext(1)
SpecJobLive == SpecJob /\ WF_vars(PipelineStep)

\* An encode may never report; everything else returns.
SpecJobStall == SpecJob /\ WF_vars(HandlerStep(1))

\* The same body is posted again while the first request may still be in
\* work: plans of one category of work (clips or one export).
ResubmitPlans ==
  {p \in Plans : Flag(p.ranges > 0) + Flag(p.gif) + Flag(p.thumbs) + Flag(p.canvas) <= 1}
InitResubmit == InitJob /\ plan \in ResubmitPlans
NextResubmit == \E s \in Runs : RunNext(s)
SpecResubmit == InitResubmit /\ [][NextResubmit]_vars

\* A text is parsed against its video, by the server and by the page.
InitTime == TimeInit /\ StampIdle /\ CutIdle /\ ExtraIdle /\ UploadIdle /\ JobIdle
NextTime == TimeNext
SpecTime == InitTime /\ [][NextTime]_vars

\* One timestamp string goes through the conversions.
InitStamp == StampInit /\ TimeIdle /\ CutIdle /\ ExtraIdle /\ UploadIdle /\ JobIdle
NextStamp == StampNext
SpecStamp == InitStamp /\ [][NextStamp]_vars

\* Cuts are generated for one video.
InitCut == CutInit /\ TimeIdle /\ StampIdle /\ ExtraIdle /\ UploadIdle /\ JobIdle
NextCut == CutNext
SpecCut == InitCut /\ [][NextCut]_vars

\* One whole-file upload request is handled.
InitWhole == WholeInit /\ SweepIdle /\ CanvasIdle /\ UploadIdle /\ GifIdle /\ FadeIdle /\ PollIdle /\ ClientIdle /\ JobIdle /\ TextIdle
NextWhole == WholeNext
SpecWhole == InitWhole /\ [][NextWhole]_vars

\* The cleanup timer runs on a server that holds an abandoned session.
InitSweep == SweepInit /\ AbandonedSession /\ WholeIdle /\ CanvasIdle /\ GifIdle /\ FadeIdle /\ PollIdle /\ ClientIdle /\ JobIdle /\ TextIdle
NextSweep == SweepNext
SpecSweep == InitSweep /\ [][NextSweep]_vars

\* generateCanvasExports chooses its segments for a video.
InitCanvas == CanvasInit /\ WholeIdle /\ SweepIdle /\ UploadIdle /\ GifIdle /\ FadeIdle /\ PollIdle /\ ClientIdle /\ JobIdle /\ TextIdle
NextCanvas == CanvasNext
SpecCanvas == InitCanvas /\ [][NextCanvas]_vars

\* generateGifExport places its segments in a video.
InitGif ==
  /\ GifInit /\ WholeIdle /\ SweepIdle /\ CanvasIdle /\ FadeIdle /\ PollIdle /\ ClientIdle
  /\ UploadIdle /\ JobIdle /\ TextIdle
NextGif == GifNext
SpecGif == InitGif /\ [][NextGif]_vars

\* The two clip encoders build their fade filters for a clip.
InitFade ==
  /\ FadeInit /\ WholeIdle /\ SweepIdle /\ CanvasIdle /\ GifIdle /\ PollIdle /\ ClientIdle
  /\ UploadIdle /\ JobIdle /\ TextIdle
NextFade == FadeNext
SpecFade == InitFade /\ [][NextFade]_vars

\* The page submits processing requests for its video and polls.
InitPoll ==
  /\ PollInit /\ WholeIdle /\ SweepIdle /\ CanvasIdle /\ GifIdle /\ FadeIdle /\ ClientIdle
  /\ UploadIdle /\ JobIdle /\ TextIdle
NextPoll == PollNext
SpecPoll == InitPoll /\ [][NextPoll]_vars

\* The page uploads a file in chunks.
InitClient ==
  /\ ClientInit /\ WholeIdle /\ SweepIdle /\ CanvasIdle /\ GifIdle /\ FadeIdle
  /\ PollIdle /\ UploadIdle /\ JobIdle /\ TextIdle
NextClient == ClientNext
SpecClient == InitClient /\ [][NextClient]_vars

\* ======================================================= upload claims

Chunks == {r \in Reqs : kind[r] = "chunk"}
Finalizes == {f \in Reqs : kind[f] = "finalize"}
Ended(r) == pc[r] = "done"
\* A finalize that passed the three checks and has not answered yet.
Assembling(f) == kind[f] = "finalize" /\ pc[f] \notin {"idle", "done"}
Acked == {r \in Chunks : Ended(r) /\ resp[r].status = 200}

RECURSIVE SumSizes(_)
SumSizes(S) ==
  IF S = {} THEN 0
  ELSE LET r == CHOOSE x \in S : TRUE
       IN Len(ChunkSlice(fileSize, idx[r])) + SumSizes(S \ {r})

\* C1: at most one finalize of an upload session is past the checks at any
\* time: a finalize that arrives while another one of the same uploadId is
\* assembling is answered 409, so that no two finalizes write a destination
\* file (and then a SourceVideo record) for the session side by side.
C1_SingleWinner ==
  \A f, g \in Reqs : (Assembling(f) /\ Assembling(g)) => f = g

\* C2: once every submitted chunk has been acknowledged (and before any
\* finalize), the stored session's receivedChunks is the number of
\* acknowledged chunks and its totalSize their total size.
C2_NoLostIncrement ==
  (InFlight = {} /\ Finalizes = {} /\ chunkStore[UploadId] # NoRec)
    => /\ recs[chunkStore[UploadId]].receivedChunks = Cardinality(Acked)
       /\ recs[chunkStore[UploadId]].totalSize = SumSizes(Acked)

\* C3: every session record has receivedChunks <= totalChunks.
C3_ReceivedAtMostTotal ==
  \A k \in 1..Len(recs) : recs[k].receivedChunks <= recs[k].totalChunks

\* C4: a finalize that arrives when the uploadId has no session, or a session
\* with receivedChunks # totalChunks, is answered 400 and changes neither the
\* session store, the records (the finalizing flag), the staging directory,
\* the destination files nor the video store.
C4_RejectLeavesState ==
  [][\A f \in Reqs :
       (/\ pc[f] = "idle" /\ kind'[f] = "finalize"
        /\ \/ chunkStore[UploadId] = NoRec
           \/ recs[chunkStore[UploadId]].receivedChunks
                # recs[chunkStore[UploadId]].totalChunks)
       => /\ pc'[f] = "done"
          /\ resp'[f].status = 400
          /\ UNCHANGED <<recs, chunkStore, chunkDirs, finalFiles, videos, currentVideoId>>
    ]_vars

\* C4 witness: a finalize was rejected as incomplete and a later finalize of
\* the same upload succeeded.
C4_Witness ==
  \E f, g \in Reqs : /\ f < g
                     /\ resp[f].message = "Incomplete upload"
                     /\ kind[g] = "finalize" /\ resp[g].status = 200

\* C5: the destination file of a successful finalize is the uploaded file:
\* the chunks concatenated in ascending index order, whatever their order of
\* arrival.
C5_AssembledInIndexOrder ==
  \A f \in Finalizes :
     (Ended(f) /\ resp[f].status = 200)
       => /\ finalFiles[f].exists
          /\ finalFiles[f].data = FileBytes(fileSize)

\* C5 witness: a finalize succeeded for a file of several chunks whose
\* chunk 1 arrived before its chunk 0.
C5_Witness ==
  \E f \in Finalizes, r1, r0 \in Chunks :
     /\ Ended(f) /\ resp[f].status = 200
     /\ r1 < r0 /\ r0 < f
     /\ idx[r1] = 1 /\ idx[r0] = 0
     /\ resp[r1].status = 200 /\ resp[r0].status = 200

\* C6: when a finalize that passed the checks answers, the session record
\* and the staging directory are gone; when it answers with a failure, its
\* destination file is gone too and no video record refers to it.
C6_NoOrphans ==
  [][\A f \in Reqs :
       (Assembling(f) /\ pc'[f] = "done")
       => /\ chunkStore'[UploadId] = NoRec
          /\ ~chunkDirs'[UploadId].exists
          /\ resp'[f].status # 200
               => /\ ~finalFiles'[f].exists
                  /\ \A v \in videos' : v.path # f
    ]_vars

\* C6 (the orphan the code leaves): a finalize answered with a failure, its
\* destination file is deleted, and a video record still refers to it.
C6_OrphanVideo ==
  \E f \in Finalizes :
     /\ Ended(f) /\ resp[f].status = 500
     /\ ~finalFiles[f].exists
     /\ \E v \in videos : v.path = f

\* C7: a finalize that found a chunk file missing fails, creates no video,
\* and its response differs from the response a finalize gives when it
\* failed for another reason (an I/O error).
C7_MissingChunkIdentified ==
  \A f \in Finalizes :
     (Ended(f) /\ cause[f] = "missing_chunk")
       => /\ resp[f].status >= 400
          /\ \A v \in videos : v.path # f
          /\ resp[f] # OuterCatchResponse("io_error")

\* C7 (the case): all chunks counted, chunk 1 never stored because chunk 0
\* was submitted twice, and the finalize failed on the missing chunk.
C7_DuplicateIndexCase ==
  \E f \in Finalizes, a, b \in Chunks :
     /\ a < b /\ b < f /\ idx[a] = 0 /\ idx[b] = 0
     /\ Ended(f) /\ cause[f] = "missing_chunk" /\ idx[f] = 1

\* ========================================================== job claims

Terminal(job) == job.status \in {"completed", "error"}

\* C8: While a job is still processing, the percent a poll returns is never
\* lower than the percent an earlier poll returned, whatever the work plan
\* and the order in which the export units complete.
C8_PercentNeverDecreases ==
  [][ProgressResponse.status = "processing"
       => ProgressResponse'.progress >= ProgressResponse.progress]_vars

\* C9: Once a cancellation was accepted for a job, every poll reports the
\* status error: no later pipeline step sets it back to processing or to
\* completed.
C9_CancelledStaysError ==
  cancels > 0 => ProgressResponse.status = "error"

\* C10: A cancellation of a job that is already completed or in error leaves
\* its record as it is, so a second cancellation changes nothing.
C10_CancelIdempotent ==
  [][(cancels' = cancels + 1 /\ Terminal(processingJobs))
       => processingJobs' = processingJobs]_vars

\* C11: every job a submission created leaves the status processing in the
\* end, provided every external invocation returns; also when no artifact
\* was produced and when the packaging throws.
C11_JobTerminates ==
  (processingJobs.status = "processing") ~> Terminal(processingJobs)

\* C12: while the status of a job is processing its percent is strictly
\* below 100, also during and after the last clip of the clip loop: 100 is
\* reported only once the packaging has finished.
C12_HundredOnlyWhenCompleted ==
  processingJobs.status = "processing" => processingJobs.progress < 100

\* C13: the total unit count a poll reports is R*A + 10*g + 10*s + 5*c, from
\* the creation of the job through its completion.
C13_TotalUnitsOfPlan ==
  ProgressResponse # NoJob => ProgressResponse.totalOutputs = TotalOutputs

\* A request whose job was marked completed (the success response)
Completed(s) == run[s].pc = "done" /\ run[s].status = 200

\* C14: when a job completes, every failed unit is reflected in its error
\* list: the produced artifacts plus the failures recorded in the error
\* list make up the total unit count of the plan.
C14_FailuresAccounted ==
  \A s \in Runs :
    Completed(s) =>
      Cardinality(run[s].processedClips) + Len(run[s].errors) = TotalOutputs

InClipLoop(s) == run[s].pc \in {"clip", "fallback"}
\* The clip loop of request s has ended.
ClipLoopOver(s) == run[s].pc \in {"gifs", "thumbnails", "canvas", "done"} /\ run[s].status # 400
\* The pair k of request s has been dealt with.
PairSettled(s, k) == k < run[s].clipCounter \/ (k = run[s].clipCounter /\ ~InClipLoop(s))
Occurrences(seq, e) == Cardinality({j \in 1..Len(seq) : seq[j] = e})
ClipErrors(s) == {j \in 1..Len(run[s].errors) : \E k \in 1..TotalClips : run[s].errors[j] = ClipError(k)}
FirstExportStage ==
  IF plan.gif THEN "gifs" ELSE IF plan.thumbs THEN "thumbnails"
  ELSE IF plan.canvas THEN "canvas" ELSE "done"

Working(s) == run[s].pc \notin {"idle", "lookup", "done"}

\* C16: a processing request fails as a whole exactly when no artifact was
\* produced: with an artifact the archive is written, the job becomes
\* completed and the response reports success with the errors of the failed
\* units; with none the response is the nothing-was-generated failure and
\* no archive is written.
C16_FailsOnlyWithoutArtifact ==
  [][\A s \in Runs :
       (Working(s) /\ run'[s].pc = "done") =>
         IF run'[s].processedClips # {}
         THEN /\ run'[s].archive
              /\ run'[s].status = 200
              /\ processingJobs'.status = "completed"
              /\ processingJobs'.errors = run'[s].errors
         ELSE /\ ~run'[s].archive
              /\ run'[s].status = 500
              /\ run'[s].message = NoContentMessage]_vars

\* C17: a pair is counted as failed only after exactly one fallback encode,
\* whatever its aspect ratio, and no pair gets more than one.
C17_OneFallbackBeforeFailure ==
  \A s \in Runs : \A k \in 1..TotalClips :
    /\ Occurrences(run[s].fallbacks, k) <= 1
    /\ Occurrences(run[s].errors, ClipError(k)) > 0
         => Occurrences(run[s].fallbacks, k) = 1

\* C18: a clip encode that never reports is ended by a timeout and counted
\* as failed, so the handler always gets past the pair it waits for.
C18_EncodeTimesOut ==
  \A k \in 1..(2 * MaxRanges) :
    (InClipLoop(1) /\ run[1].clipCounter = k)
      ~> ~(InClipLoop(1) /\ run[1].clipCounter = k)

\* C19: a submission with no valid time range and no export flag (also one
\* whose text is white space only) is answered with an input error before
\* any work starts, and no job record is created for the video.
C19_EmptyPlanRejected ==
  (plan.ranges = 0 /\ NoFlag) =>
    /\ processingJobs = NoJob
    /\ \A s \in Runs : /\ ~Working(s)
                       /\ run[s].pc = "done" => run[s].status = 400

\* C20: at most one job is live per source video: a processing request that
\* gets to create its job while another request for the video is in work
\* and the job is processing is rejected and leaves the record as it is.
C20_OneLiveJob ==
  [][\A s \in Runs :
       ( /\ \E t \in Runs \ {s} : Working(t) /\ run[t].pc # "setup"
         /\ processingJobs.status = "processing"
         /\ run[s].pc = "setup" /\ run'[s].pc # "setup" )
       => /\ processingJobs' = processingJobs
          /\ run'[s].pc = "done" /\ run'[s].status >= 400]_vars

\* The units of a category request s has produced so far
Produced(s, category) == {a \in run[s].processedClips : a.category = category}

\* The percent for k completed units on top of `base` earlier ones
PercentOf(base, k) ==
  Min(ProgressCap, Round100(base + k, processingJobs.totalOutputs))

\* C21: within a concurrent category, after k units have completed in any
\* order the percent is that of exactly k units of the category on top of
\* the earlier categories: no completion is lost and none is counted by its
\* index.  (A short loop counts as completed once it has settled.)
C21_PercentCountsCompletions ==
  \A s \in Runs :
    /\ (run[s].pc = "gifs" /\ Produced(s, "gif") # {}) =>
         processingJobs.progress =
           PercentOf(processingJobs.totalClips, Cardinality(Produced(s, "gif")))
    /\ (run[s].pc = "thumbnails" /\ Produced(s, "thumbnail") # {}) =>
         processingJobs.progress =
           PercentOf(processingJobs.totalClips + processingJobs.totalGifs,
                     Cardinality(Produced(s, "thumbnail")))
    /\ (run[s].pc = "canvas" /\ Produced(s, "canvas") # {}) =>
         processingJobs.progress =
           PercentOf(processingJobs.totalClips + processingJobs.totalGifs
                       + processingJobs.totalThumbnails, run[s].completed)

\* ======================================================= timestamp claims

\* The video's duration is known: a duration string is stored
DurationKnown == videoDuration # Null

\* An accepted pair lies inside the video
WithinVideo(v) ==
  /\ timestampToSeconds(v.startTime) < timestampToSeconds(v.endTime)
  /\ DurationKnown =>
       timestampToSeconds(v.endTime) <= timestampToSeconds(videoDuration)

\* C22: every entry of `valid` has start < end and, when the video's
\* duration is known, end <= duration, for the server's validation and the
\* client's parser alike; a candidate that ends after the known duration is
\* not in `valid` and gets the end-exceeds-duration error.
C22_ValidWithinDuration ==
  /\ "server" \in parsed =>
       /\ \A n \in 1..Len(validation.valid) : WithinVideo(validation.valid[n])
       /\ \A i \in 1..Len(timestamps) :
            (/\ DurationKnown
             /\ timestampToSeconds(timestamps[i].startTime)
                  < timestampToSeconds(timestamps[i].endTime)
             /\ timestampToSeconds(timestamps[i].endTime)
                  > timestampToSeconds(videoDuration))
            => \E e \in 1..Len(validation.errors) :
                 validation.errors[e] = DurationError(i)
  /\ "client" \in parsed =>
       \A n \in 1..Len(parseResult.timestamps) :
         WithinVideo(parseResult.timestamps[n])

\* The 30-second video and the text 0:20-0:40: rejected with the error
C22_HalfMinuteCase ==
  /\ parsed = {"server", "client"}
  /\ videoDuration = formatDuration(30)
  /\ text = RangeLine(formatDuration(20), formatDuration(40))
  /\ validation.valid = <<>>
  /\ validation.errors = <<DurationError(1)>>
  /\ parseResult.timestamps = <<>>
  /\ parseResult.errors = <<LineDurationError(1)>>

\* C23: every non-empty line of the text ends in exactly one of two ways,
\* as an entry of `valid` or as one error (the first failing check of
\* format, start < end, end <= known duration): the server's entries and
\* errors together are as many as the lines, none dropped, none twice.
C23_EveryLineAccounted ==
  "server" \in parsed =>
    Len(validation.valid) + Len(validation.errors) = Len(LinesOf(text))

\* A text with a line that is no range went through the server
C23_MalformedLineCase ==
  /\ "server" \in parsed
  /\ \E n \in 1..Len(LinesOf(text)) : Len(RangeParts(LinesOf(text)[n])) < 2

\* The fields of the string as typed, and their numbers
StampFieldsOf == Split(stamp, {":"})
StampNumbers == [k \in 1..Len(StampFieldsOf) |-> Number(StampFieldsOf[k])]

\* h:mm:ss or m:ss with minutes and seconds under 60
WellFormedStamp ==
  IF Len(StampFieldsOf) = 3
  THEN StampNumbers[2] < 60 /\ StampNumbers[3] < 60
  ELSE StampNumbers[1] < 60 /\ StampNumbers[2] < 60

\* HH:MM:SS of the same hours, minutes and seconds
SameTimePadded ==
  IF Len(StampFieldsOf) = 3
  THEN Pad2(StampNumbers[1]) \o Colon \o Pad2(StampNumbers[2]) \o Colon
         \o Pad2(StampNumbers[3])
  ELSE <<"0", "0">> \o Colon \o Pad2(StampNumbers[1]) \o Colon
         \o Pad2(StampNumbers[2])

\* The seconds the string as typed stands for
TypedSeconds ==
  IF Len(StampFieldsOf) = 3
  THEN StampNumbers[1] * 3600 + StampNumbers[2] * 60 + StampNumbers[3]
  ELSE StampNumbers[1] * 60 + StampNumbers[2]

\* C24: normalization keeps the value: h:mm:ss (h in 0..99, m and s in
\* 0..59) becomes HH:MM:SS with the same h, m and s, worth
\* h*3600 + m*60 + s seconds, and m:ss becomes 00:MM:SS, on the server and
\* on the client.
C24_NormalizeKeepsValue ==
  \A side \in Sides :
    (normalized[side].called /\ WellFormedStamp) =>
      /\ normalized[side].value = SameTimePadded
      /\ timestampToSeconds(normalized[side].value) = TypedSeconds

\* m:ss went through both normalizations and came out as 00:MM:SS
C24_TwoFieldCase ==
  /\ Len(StampFieldsOf) = 2
  /\ WellFormedStamp
  /\ TypedSeconds > 0
  /\ \A side \in Sides :
       normalized[side].called /\ normalized[side].value = SameTimePadded

\* C25: a string whose minutes or seconds field is 60 or more is rejected
\* as a format error by the server's normalization and by the client's
\* alike: neither returns a timestamp for it.
C25_SixtyRejected ==
  \A side \in Sides :
    (normalized[side].called /\ ~WellFormedStamp) =>
      normalized[side].value = Null

\* The client rejected m:ss with 60 or more seconds
C25_ClientRejectsCase ==
  /\ Len(StampFieldsOf) = 2
  /\ StampNumbers[2] >= 60
  /\ normalized["client"].called
  /\ normalized["client"].value = Null

\* The candidates the server accepted, by their place among the candidates
\* handed to the validation: those that drew no error
AcceptedCandidates ==
  {i \in 1..Len(timestamps) :
     \A e \in 1..Len(validation.errors) :
       validation.errors[e] \notin {StartError(i), DurationError(i)}}

\* The seconds two candidates share: min(end) - max(start)
SharedSeconds(i, j) ==
  Min(timestampToSeconds(timestamps[i].endTime),
      timestampToSeconds(timestamps[j].endTime))
    - Max(timestampToSeconds(timestamps[i].startTime),
          timestampToSeconds(timestamps[j].startTime))

\* C26: every two accepted candidates that share a positive duration get
\* exactly one overlap warning that cites the input indices of both (also
\* when an earlier candidate was rejected) and the shared length
\* min(end) - max(start); two that only touch get none; an overlap removes
\* no candidate from `valid`.
C26_OverlapWarnsOncePerPair ==
  "server" \in parsed =>
    /\ \A i \in AcceptedCandidates, j \in AcceptedCandidates :
         i < j =>
           IF SharedSeconds(i, j) > 0
           THEN Occurrences(validation.warnings,
                            OverlapWarning(j, i, SharedSeconds(i, j))) = 1
           ELSE SharedSeconds(i, j) = 0 =>
                  Occurrences(validation.warnings, OverlapWarning(j, i, 0)) = 0
    /\ Len(validation.valid) = Cardinality(AcceptedCandidates)

\* Two accepted candidates overlap by five seconds and the one warning
\* names them, a third only touches
C26_OverlapCase ==
  /\ "server" \in parsed
  /\ AcceptedCandidates = {1, 2, 3}
  /\ SharedSeconds(1, 2) = 5
  /\ SharedSeconds(2, 3) = 0
  /\ Occurrences(validation.warnings, OverlapWarning(2, 1, 5)) = 1
  /\ Len(validation.valid) = 3

StartOf(i) == timestampToSeconds(timestamps[i].startTime)
Warned(w) == Occurrences(validation.warnings, w)

\* C27: an accepted clip that starts on a whole second after 0 gets exactly
\* one nudge warning citing its index and neither early-start warning; one
\* that starts at 0 gets exactly the two early-start warnings and no nudge
\* warning; a rejected candidate gets none.  Hence ranges that share no
\* second and all start after 0 yield as many warnings as valid entries.
C27_BoundaryWarnings ==
  "server" \in parsed =>
    /\ \A i \in 1..Len(timestamps) :
         LET nudge == Warned(NudgeWarning(i, timestamps[i].startTime))
             early == Warned(EarlyWarning(i, timestamps[i].startTime))
             zero == Warned(ZeroWarning(i))
         IN IF i \notin AcceptedCandidates
            THEN nudge = 0 /\ early = 0 /\ zero = 0
            ELSE IF StartOf(i) > 0
                 THEN nudge = 1 /\ early = 0 /\ zero = 0
                 ELSE nudge = 0 /\ early = 1 /\ zero = 1
    /\ (/\ \A i \in AcceptedCandidates : StartOf(i) > 0
        /\ \A i \in AcceptedCandidates, j \in AcceptedCandidates :
             i < j => SharedSeconds(i, j) <= 0)
       => Len(validation.warnings) = Len(validation.valid)

\* 0:00-0:16, 0:16-0:35 and 0:44-1:01: two warnings for the first, one
\* nudge warning for each of the other two
C27_Witness ==
  /\ "server" \in parsed
  /\ text = JoinLines(<<RangeLine(formatDuration(0), formatDuration(16)),
                        RangeLine(formatDuration(16), formatDuration(35)),
                        formatDuration(44) \o <<" ", "-", " ">> \o formatDuration(61)>>)
  /\ Len(validation.valid) = 3
  /\ validation.warnings =
       <<EarlyWarning(1, timestamps[1].startTime), ZeroWarning(1),
         NudgeWarning(2, timestamps[2].startTime),
         NudgeWarning(3, timestamps[3].startTime)>>

\* The string is a normalized HH:MM:SS: three fields of two digits,
\* minutes and seconds under 60
NormalizedStamp ==
  /\ Len(StampFieldsOf) = 3
  /\ \A k \in 1..3 : Len(StampFieldsOf[k]) = 2
  /\ WellFormedStamp

\* C28: secondsToTimestamp(timestampToSeconds(x)) = x for every normalized
\* HH:MM:SS string x (hours 0..99), with the server's pair of functions and
\* with the client's.
C28_RoundTrip ==
  \A side \in Sides :
    (roundTrip[side].called /\ NormalizedStamp) => roundTrip[side].value = stamp

\* The client's pair brought a normalized string of 99 hours back
C28_ClientCase ==
  /\ NormalizedStamp
  /\ StampNumbers[1] = 99
  /\ TypedSeconds % 3600 > 0
  /\ roundTrip["client"].called
  /\ roundTrip["client"].value = stamp

\* ======================================================= generator claims

CutTotal == timestampToSeconds(cutVideo)
CutAnswered == randomCut.pc \in {"thrown", "returned"}

CutStart(n) == timestampToSeconds(randomCut.timestamps[n].startTime)
CutEnd(n) == timestampToSeconds(randomCut.timestamps[n].endTime)

\* C30: the returned list is sorted ascending by start, its clips do not
\* overlap after truncation to whole seconds, each has start < end and
\* end <= total duration, and each is at least as long as the minimum clip
\* duration of the active bracket, also in the bracket under 30 seconds
\* where the computed maximum can fall below the minimum.
C30_ReturnedListWellFormed ==
  randomCut.pc = "returned" =>
    /\ \A n \in 1..Len(randomCut.timestamps), m \in 1..Len(randomCut.timestamps) :
         n < m => CutStart(n) <= CutStart(m) /\ CutEnd(n) <= CutStart(m)
    /\ \A n \in 1..Len(randomCut.timestamps) :
         /\ CutStart(n) < CutEnd(n)
         /\ CutEnd(n) <= CutTotal
         /\ CutEnd(n) - CutStart(n) >= minClipDuration(CutTotal)

\* Two clips were returned for a video of over two hours, in order
C30_TwoClipsCase ==
  /\ randomCut.pc = "returned"
  /\ CutTotal = 7300
  /\ Len(randomCut.timestamps) = 2
  /\ CutEnd(1) <= CutStart(2)
  /\ CutStart(2) >= 3600

\* ======================================================= archive claims

\* The categories request s produced at least one artifact of
ProducedCategories(s) == {a.category : a \in run[s].processedClips}

\* The name the produced categories call for: clips, else canvas, else the
\* combined name for several export categories, else the single category
NameOfProduced(s) ==
  IF "clip" \in ProducedCategories(s) THEN "clips"
  ELSE IF "canvas" \in ProducedCategories(s) THEN "canvas"
  ELSE IF {"gif", "thumbnail"} \subseteq ProducedCategories(s) THEN "exports"
  ELSE IF "gif" \in ProducedCategories(s) THEN "gifs"
  ELSE "thumbnails"

\* C31: the archive is named after the categories that were actually
\* produced: clips if a clip was produced, else canvas if a short loop was
\* produced, else the combined name if several export categories were
\* produced, else the single produced category; a category that was
\* requested but produced nothing does not determine the name.
C31_ArchiveNamedAfterProduced ==
  \A s \in Runs : run[s].archive => zipSuffix = NameOfProduced(s)

\* An archive was written after every requested category produced something
C31_AllProducedCase ==
  \E s \in Runs :
    /\ run[s].archive
    /\ plan.gif /\ plan.thumbs /\ ~plan.canvas /\ plan.ranges = 0
    /\ ProducedCategories(s) = {"gif", "thumbnail"}
    /\ zipSuffix = "exports"

\* C32: a whole-file upload is accepted only when the free space is at
\* least twice the upload size; when it is less, the upload is answered
\* with the insufficient-space error, the received file is deleted and no
\* video record is created.
C32_AcceptedOnlyWithSpace ==
  /\ wholeUpload.status = 200 => freeSpace >= 2 * wholeUpload.file.size
  /\ (/\ wholeUpload.pc = "done"
      /\ wholeUpload.file.present
      /\ freeSpace < 2 * wholeUpload.file.size)
     => /\ wholeUpload.status = 507
        /\ ~wholeUpload.stored
        /\ videos = {}

\* A 3-unit file met 5 free units: refused, deleted, nothing stored
C32_RefusedCase ==
  /\ wholeUpload.pc = "done"
  /\ wholeUpload.file = UploadFile(3)
  /\ freeSpace = 5
  /\ wholeUpload.status = 507
  /\ ~wholeUpload.stored
  /\ videos = {}

\* C33: a session that gets no further chunk and no finalize is reclaimed
\* by the periodic cleanup once the retention window has passed: after a
\* pass that began with the session that old, its record and its staging
\* directory are gone; and a directory met during a pass does not keep the
\* pass from reclaiming the other old entries.
C33_AbandonedSessionReclaimed ==
  (sweep.pc = "idle" /\ sweep.ended) =>
    /\ sweep.startedOld =>
         chunkStore[UploadId] = NoRec /\ ~chunkDirs[UploadId].exists
    /\ \A n \in sweep.due : ~uploadsDir[n].exists

\* A pass removed the old plain files it found next to fresh directories
C33_OldFilesCase ==
  /\ sweep.pc = "idle" /\ sweep.ended
  /\ sweep.due = PlainFiles
  /\ \A n \in PlainFiles : ~uploadsDir[n].exists
  /\ \A n \in Directories : uploadsDir[n].exists /\ ~uploadsDir[n].old

\* ---------------------------------------------------- concurrent stages

\* A step of request s inside a concurrent stage settles one pending unit:
\* the other units stay pending and the artifacts produced so far stay,
\* the stage grows by at most that unit's path, and the handler resumes
\* only when that unit was the last one pending.
SettlesOneUnit(s, stage, category) ==
  (run[s].pc = stage /\ run'[s] # run[s]) =>
    \E i \in run[s].pending :
      /\ run'[s].pc = stage => run'[s].pending = run[s].pending \ {i}
      /\ run'[s].pc # stage => run[s].pending = {i}
      /\ Produced(s, category) \subseteq Produced(s, category)'
      /\ Produced(s, category)' \ Produced(s, category)
           \subseteq {Artifact(category, i)}
      /\ run'[s].errors = run[s].errors

\* C34: the GIF stage and the thumbnail stage each return only after every
\* unit has settled, with the paths of exactly the units that succeeded; a
\* failing unit neither rejects the stage nor keeps another unit from
\* completing, in every interleaving.
C34_StagesJoinEveryUnit ==
  [][\A s \in Runs : /\ SettlesOneUnit(s, "gifs", "gif")
                     /\ SettlesOneUnit(s, "thumbnails", "thumbnail")]_vars

\* Both stages returned after their first unit failed and their last one
\* succeeded
C34_FailedFirstUnitCase ==
  /\ plan.gif /\ plan.thumbs /\ NumGifs = 2
  /\ run[1].pc = "done"
  /\ Produced(1, "gif") = {Artifact("gif", 2)}
  /\ Produced(1, "thumbnail") = {Artifact("thumbnail", ThumbnailUnits)}

\* ----------------------------------------------------- canvas segments

\* C35: the short-loop export always ends: for every duration and every
\* outcome of the draws the choice of segments ends with five segments, so
\* while fewer than five are chosen some draw is still accepted (a loop in
\* which every draw is dropped never launches an extraction and never sets
\* the timeout that resolves the export).
C35_SelectionCanEnd ==
  (canvasPc = "select" /\ Len(segments) < TotalCanvas) =>
    \E k \in CanvasDraws : ~hasOverlap(StartTicks(k))

\* Five segments were chosen and the extractions launched
C35_LaunchedCase ==
  canvasPc = "launched" /\ Len(segments) = TotalCanvas

\* C36: the chosen 4-second segments are pairwise at least 4 seconds apart,
\* and each ends inside the video, for every duration and draw.
C36_SegmentsApartAndInside ==
  /\ \A a \in 1..Len(segments), b \in 1..Len(segments) :
       a # b => Abs(segments[a].start - segments[b].start)
                  >= SegmentSeconds * TicksPerSecond
  /\ \A a \in 1..Len(segments) :
       segments[a].start + SegmentSeconds * TicksPerSecond
         <= canvasDuration * TicksPerSecond

\* Five segments of a half-minute video, apart and inside it
C36_HalfMinuteCase ==
  /\ canvasPc = "launched" /\ canvasDuration = 30
  /\ C36_SegmentsApartAndInside

\* -------------------------------------------------------- GIF segments

\* C37: the animated-loop export encodes exactly min(10, floor(duration/6))
\* segments of 6 seconds, and the segments encoded are pairwise
\* non-overlapping and inside the video, also when the 50 placement
\* attempts of a segment are used up.
C37_GifSegmentsDisjointInside ==
  /\ Len(gifStarts) <= numGifs(gifDuration)
  /\ gifPc = "launched" => Len(gifStarts) = numGifs(gifDuration)
  /\ \A a \in 1..Len(gifStarts), b \in 1..Len(gifStarts) :
       a # b => \/ gifStarts[a] + GifSeconds * TicksPerSecond <= gifStarts[b]
                \/ gifStarts[b] + GifSeconds * TicksPerSecond <= gifStarts[a]
  /\ \A a \in 1..Len(gifStarts) :
       gifStarts[a] + GifSeconds * TicksPerSecond <= gifDuration * TicksPerSecond

\* The last GIF was set up after its 50 attempts had all been dropped
C37_AttemptsExhaustedCase ==
  /\ gifPc = "launched"
  /\ placement.attempts = MaxPlacementAttempts
  /\ ~placement.validPosition

\* --------------------------------------------------------------- fades

\* The fade filters handed to ffmpeg for the clip
FadesBuilt == fadeFilters.video \o fadeFilters.audio

\* C38: every clip encoded with a video or audio fade has a fade shorter
\* than half the clip, so the fade-out starts neither before the end of the
\* fade-in nor before 0; a request that breaks this (a 1-second clip with a
\* 1.0-second fade) does not reach the transcoder with its fades.
C38_FadeShorterThanHalfClip ==
  \A n \in 1..Len(FadesBuilt) :
    /\ 2 * FadesBuilt[n].d < fadeInput.duration
    /\ FadesBuilt[n].t = "out" =>
         FadesBuilt[n].st >= FadesBuilt[n].d /\ FadesBuilt[n].st >= 0

\* A 10-second clip encoded with both fades of half a second
C38_StandardFadeCase ==
  /\ fadeInput.duration = 100 /\ fadeInput.fadeDuration = 5
  /\ Len(fadeFilters.video) = 2 /\ Len(fadeFilters.audio) = 2
  /\ C38_FadeShorterThanHalfClip

\* ------------------------------------------------------------- polling

\* C39: a page that starts a new processing request for its video and then
\* polls never takes the record of an earlier job of the video for the new
\* one: when it reports the request finished, the completed status and the
\* download path it shows are those of the request in hand.
C39_ReportsOwnJobOnly ==
  page.pc = "complete" => page.shown = page.request

\* The page reported its second request finished from that request's record
C39_SecondJobReportedCase ==
  /\ page.pc = "complete" /\ page.request = 2 /\ page.shown = 2
  /\ requests[2] = "answered"

\* ------------------------------------------------------ chunking client

\* The chunk requests sent so far, in order
ChunksSent == SelectSeq(sentLog, LAMBDA e : e # FinalizeRequest)

FinalizeSent == \E k \in 1..Len(sentLog) : sentLog[k] = FinalizeRequest

\* C40: the client sends finalize only after every one of the
\* ceil(size/chunkSize) chunk requests has returned success; at most 3
\* chunk requests are in flight; the chunks go out in ascending index
\* order, a batch only after the batches before it have succeeded; and
\* once a chunk request has failed no finalize is sent.
C40_FinalizeAfterEveryChunk ==
  /\ FinalizeSent =>
       /\ Len(ChunksSent) = TotalChunksOf(fileSizeClient)
       /\ \A i \in 0..(TotalChunksOf(fileSizeClient) - 1) : chunkFetch[i] = "ok"
       /\ uploadedBytes = fileSizeClient
  /\ Cardinality({i \in ChunkIndexes : chunkFetch[i] = "inflight"}) <= BatchSize
  /\ \A k \in 1..Len(ChunksSent) :
       /\ ChunksSent[k] = ChunkRequest(k - 1)
       /\ \A j \in 0..(BatchSize * ((k - 1) \div BatchSize) - 1) : chunkFetch[j] = "ok"
  /\ (\E i \in ChunkIndexes : chunkFetch[i] = "failed") => ~FinalizeSent

\* A file of five chunks went up in two batches and finalize returned
C40_TwoBatchesCase ==
  /\ TotalChunksOf(fileSizeClient) = 5
  /\ sentLog = Ascending(0, 4) \o <<FinalizeRequest>>
  /\ clientPc = "returned"

====
